---- MODULE Spec2Model ----
(***************************************************************************)
(* Philippine location parser: the gazetteer index                         *)
(* (hierarchical-location-index.js), the resolver built on it              *)
(* (hierarchical-parser-v2.js), the false-positive filter, and the         *)
(* services of the v5 server: the result cache (cache-manager.js), the     *)
(* batch processor (batch-processor.js), the LLM-first extraction and the  *)
(* progress streams (server-v5.js).                                        *)
(*                                                                         *)
(* A string is a sequence of one-character strings, so that the regular    *)
(* expressions of the source act on characters as they do in JavaScript.   *)
(***************************************************************************)
EXTENDS Integers, Sequences, FiniteSets, TLC

(***************************************************************************)
(* Characters                                                              *)
(***************************************************************************)
UpperSeq == <<"A","B","C","D","E","F","G","H","I","J","K","L","M",
              "N","O","P","Q","R","S","T","U","V","W","X","Y","Z">>
LowerSeq == <<"a","b","c","d","e","f","g","h","i","j","k","l","m",
              "n","o","p","q","r","s","t","u","v","w","x","y","z">>
Upper == {UpperSeq[i] : i \in 1..Len(UpperSeq)}
Lower == {LowerSeq[i] : i \in 1..Len(LowerSeq)}
Digit == {"0","1","2","3","4","5","6","7","8","9"}
Letter == Upper \cup Lower
Space == {" "}
Punct == {",", ".", ":", "=", "#", "(", ")", "?", "-", "_", "!", "@"}
WordChar == Letter \cup Digit \cup {"_"}
AnyChar == Letter \cup Digit \cup Space \cup Punct

ToLowerChar(c) ==
  IF c \in Upper THEN LowerSeq[CHOOSE i \in 1..Len(UpperSeq) : UpperSeq[i] = c] ELSE c
ToUpperChar(c) ==
  IF c \in Lower THEN UpperSeq[CHOOSE i \in 1..Len(LowerSeq) : LowerSeq[i] = c] ELSE c

\* String.prototype.toLowerCase
toLowerCase(s) == [i \in 1..Len(s) |-> ToLowerChar(s[i])]

\* s.substring(a, b): the characters at 1-based positions a .. b-1
Sub(s, a, b) == SubSeq(s, a, b - 1)

(***************************************************************************)
(* Regular expressions: a pattern is a sequence of nodes, matched by       *)
(* backtracking in the priority order of the JavaScript engine.            *)
(***************************************************************************)
Set(S) == [k |-> "set", s |-> S]
Alt(a) == [k |-> "alt", a |-> a]
Star(b) == [k |-> "star", b |-> b, lazy |-> FALSE]
StarLazy(b) == [k |-> "star", b |-> b, lazy |-> TRUE]
Open(g) == [k |-> "open", g |-> g]
Close(g) == [k |-> "close", g |-> g]
WordB == [k |-> "wb"]
EndAnchor == [k |-> "end"]
BeginAnchor == [k |-> "bol"]
Plus(b) == b \o <<Star(b)>>
PlusLazy(b) == b \o <<StarLazy(b)>>
Opt(b) == <<Alt(<<b, <<>>>>)>>
Group(g, b) == <<Open(g)>> \o b \o <<Close(g)>>
\* a literal word, case-sensitive and case-insensitive (flag i)
Lit(w) == [i \in 1..Len(w) |-> Set({w[i]})]
LitI(w) == [i \in 1..Len(w) |-> Set({ToLowerChar(w[i]), ToUpperChar(w[i])})]

NoCaps == << <<0, 0>>, <<0, 0>>, <<0, 0>> >>
NoMatch == [ok |-> FALSE]

IsWordAt(s, i) == i >= 1 /\ i <= Len(s) /\ s[i] \in WordChar

\* a when it is a match, else b: the order in which the engine tries two ways
OrElse(a, b) == IF a.ok THEN a ELSE b

Least(S) == CHOOSE i \in S : \A j \in S : i <= j
Greatest(S) == CHOOSE i \in S : \A j \in S : i >= j

\* the position after the longest run of characters of the class S that starts at i
RunEnd(S, s, i) == Least({j \in i..(Len(s) + 1) : j = Len(s) + 1 \/ s[j] \notin S})

\* the number of character classes `nodes` begins with, and whether the characters
\* of s from position i are in them, one by one
ClassRun(nodes) ==
  Least({j \in 1..(Len(nodes) + 1) : j = Len(nodes) + 1 \/ nodes[j].k # "set"}) - 1

ClassesMatch(nodes, run, s, i) ==
  i + run - 1 <= Len(s) /\ \A j \in 1..run : s[i + j - 1] \in nodes[j].s

\* a repetition whose body is one character class
IsClassStar(n) == Len(n.b) = 1 /\ n.b[1].k = "set"

RECURSIVE Match(_, _, _, _)
RECURSIVE MatchAlt(_, _, _, _, _)
RECURSIVE MatchAfter(_, _, _, _, _)
\* the first way, in priority order, in which `nodes` matches s from position i
Match(nodes, s, i, caps) ==
  IF nodes = <<>> THEN [ok |-> TRUE, e |-> i, caps |-> caps]
  ELSE LET n == Head(nodes)
           rest == Tail(nodes)
       IN CASE n.k = "set" ->
                 IF ClassesMatch(nodes, ClassRun(nodes), s, i)
                 THEN Match(SubSeq(nodes, ClassRun(nodes) + 1, Len(nodes)), s,
                            i + ClassRun(nodes), caps)
                 ELSE NoMatch
            [] n.k = "alt" -> MatchAlt(n.a, rest, s, i, caps)
            [] n.k = "star" /\ IsClassStar(n) ->
                 MatchAfter({e \in i..RunEnd(n.b[1].s, s, i) : Match(rest, s, e, caps).ok},
                            n.lazy, rest, s, caps)
            [] n.k = "star" /\ ~IsClassStar(n) ->
                 IF n.lazy
                 THEN OrElse(Match(rest, s, i, caps),
                             Match(n.b \o <<n>> \o rest, s, i, caps))
                 ELSE OrElse(Match(n.b \o <<n>> \o rest, s, i, caps),
                             Match(rest, s, i, caps))
            [] n.k = "open" ->
                 Match(rest, s, i, [caps EXCEPT ![n.g] = <<i, 0>>])
            [] n.k = "close" ->
                 Match(rest, s, i, [caps EXCEPT ![n.g] = <<caps[n.g][1], i>>])
            [] n.k = "wb" ->
                 IF IsWordAt(s, i - 1) # IsWordAt(s, i) THEN Match(rest, s, i, caps)
                 ELSE NoMatch
            [] n.k = "end" ->
                 IF i = Len(s) + 1 THEN Match(rest, s, i, caps) ELSE NoMatch
            [] n.k = "bol" ->
                 IF i = 1 THEN Match(rest, s, i, caps) ELSE NoMatch

\* a class repetition may stop at any of `ends`: a lazy one takes the nearest,
\* a greedy one the farthest
MatchAfter(ends, lazy, rest, s, caps) ==
  IF ends = {} THEN NoMatch
  ELSE Match(rest, s, IF lazy THEN Least(ends) ELSE Greatest(ends), caps)

MatchAlt(alts, rest, s, i, caps) ==
  IF alts = <<>> THEN NoMatch
  ELSE OrElse(Match(Head(alts) \o rest, s, i, caps),
              MatchAlt(Tail(alts), rest, s, i, caps))

\* the match object of a successful attempt r that started at position from
Found(r, from) == [ok |-> TRUE, b |-> from, e |-> r.e, caps |-> r.caps]

\* the positions at or after from where the pattern matches
Starts(re, s, from) == {i \in from..(Len(s) + 1) : Match(re, s, i, NoCaps).ok}

ExecAt(starts, re, s) ==
  IF starts = {} THEN NoMatch
  ELSE Found(Match(re, s, Least(starts), NoCaps), Least(starts))

\* RegExp.prototype.exec with lastIndex = from - 1: the leftmost match at or after from
Exec(re, s, from) == ExecAt(Starts(re, s, from), re, s)

\* RegExp.prototype.test
Test(re, s) == Exec(re, s, 1).ok

\* capture group g of a match m on s; <<>> stands for an unset or empty group
Cap(s, m, g) ==
  IF m.caps[g][2] = 0 THEN <<>> ELSE Sub(s, m.caps[g][1], m.caps[g][2])

RECURSIVE ExecAll(_, _, _)
RECURSIVE ExecAllStep(_, _, _)
\* the matches of a /g pattern, as the while ((match = re.exec(s)) !== null) loop sees them
ExecAll(re, s, from) == ExecAllStep(Exec(re, s, from), re, s)

ExecAllStep(m, re, s) ==
  IF ~m.ok THEN <<>>
  ELSE <<m>> \o ExecAll(re, s, IF m.e > m.b THEN m.e ELSE m.e + 1)

RECURSIVE ReplaceFrom(_, _, _, _, _)
RECURSIVE ReplaceStep(_, _, _, _, _, _)
ReplaceFrom(re, s, rep, from, all) == ReplaceStep(Exec(re, s, from), re, s, rep, from, all)

ReplaceStep(m, re, s, rep, from, all) ==
  IF ~m.ok THEN Sub(s, from, Len(s) + 1)
  ELSE Sub(s, from, m.b) \o rep \o
       (IF all /\ m.e <= Len(s)
        THEN (IF m.e > m.b THEN ReplaceFrom(re, s, rep, m.e, all)
              ELSE <<s[m.e]>> \o ReplaceFrom(re, s, rep, m.e + 1, all))
        ELSE Sub(s, m.e, Len(s) + 1))
\* s.replace(/re/g, rep) and s.replace(/re/, rep), rep a fixed string
ReplaceAll(re, s, rep) == ReplaceFrom(re, s, rep, 1, TRUE)
ReplaceFirst(re, s, rep) == ReplaceFrom(re, s, rep, 1, FALSE)

\* String.prototype.trim
RECURSIVE TrimLeft(_)
TrimLeft(s) == IF s # <<>> /\ Head(s) \in Space THEN TrimLeft(Tail(s)) ELSE s
RECURSIVE TrimRight(_)
TrimRight(s) ==
  IF s # <<>> /\ s[Len(s)] \in Space THEN TrimRight(SubSeq(s, 1, Len(s) - 1)) ELSE s
trim(s) == TrimRight(TrimLeft(s))

\* String.prototype.includes, startsWith, endsWith
includes(s, t) ==
  \E i \in 1..(Len(s) - Len(t) + 1) : SubSeq(s, i, i + Len(t) - 1) = t
startsWith(s, t) == Len(t) <= Len(s) /\ SubSeq(s, 1, Len(t)) = t
endsWith(s, t) == Len(t) <= Len(s) /\ SubSeq(s, Len(s) - Len(t) + 1, Len(s)) = t

(***************************************************************************)
(* The gazetteer: an excerpt of                                            *)
(* philippine_provinces_cities_municipalities_and_barangays_2019v2.json,   *)
(* in file order (region -> province -> municipality -> barangays).        *)
(***************************************************************************)
Gazetteer ==
  <<
    [regionCode |-> <<"0","4">>,
     region_name |-> <<"R","E","G","I","O","N"," ","I","V","-","A">>,
     province_list |-> <<
      [name |-> <<"C","A","V","I","T","E">>,
       municipality_list |-> <<
        [name |-> <<"T","A","N","Z","A">>,
         barangay_list |-> <<<<"P","O","B","L","A","C","I","O","N">>,
                            <<"S","A","H","U","D"," ","U","L","A","N">>>>],
        [name |-> <<"R","O","S","A","R","I","O">>,
         barangay_list |-> <<<<"P","O","B","L","A","C","I","O","N">>>>]>>],
      [name |-> <<"Q","U","E","Z","O","N">>,
       municipality_list |-> <<
        [name |-> <<"Q","U","E","Z","O","N">>,
         barangay_list |-> <<<<"A","P","A","D">>>>]>>],
      [name |-> <<"R","I","Z","A","L">>,
       municipality_list |-> <<
        [name |-> <<"R","O","D","R","I","G","U","E","Z"," ","(","M","O","N","T","A","L","B","A","N",")">>,
         barangay_list |-> <<<<"R","O","S","A","R","I","O">>>>]>>]>>],
    [regionCode |-> <<"0","7">>,
     region_name |-> <<"R","E","G","I","O","N"," ","V","I","I">>,
     province_list |-> <<
      [name |-> <<"B","O","H","O","L">>,
       municipality_list |-> <<
        [name |-> <<"P","I","L","A","R">>,
         barangay_list |-> <<<<"P","O","B","L","A","C","I","O","N">>>>]>>],
      [name |-> <<"C","E","B","U">>,
       municipality_list |-> <<
        [name |-> <<"C","E","B","U"," ","C","I","T","Y">>,
         barangay_list |-> <<<<"A","P","A","S">>>>],
        [name |-> <<"C","I","T","Y"," ","O","F"," ","N","A","G","A">>,
         barangay_list |-> <<<<"U","L","I","N","G">>>>],
        [name |-> <<"P","I","L","A","R">>,
         barangay_list |-> <<<<"L","U","Z">>>>]>>]>>],
    [regionCode |-> <<"1","3">>,
     region_name |-> <<"N","C","R">>,
     province_list |-> <<
      [name |-> <<"N","A","T","I","O","N","A","L"," ","C","A","P","I","T","A","L"," ","R","E","G","I","O","N"," ","-"," ","S","E","C","O","N","D"," ","D","I","S","T","R","I","C","T">>,
       municipality_list |-> <<
        [name |-> <<"Q","U","E","Z","O","N"," ","C","I","T","Y">>,
         barangay_list |-> <<<<"K","R","U","S"," ","N","A"," ","L","I","G","A","S">>>>]>>],
      [name |-> <<"N","A","T","I","O","N","A","L"," ","C","A","P","I","T","A","L"," ","R","E","G","I","O","N"," ","-"," ","T","H","I","R","D"," ","D","I","S","T","R","I","C","T">>,
       municipality_list |-> <<
        [name |-> <<"C","A","L","O","O","C","A","N"," ","C","I","T","Y">>,
         barangay_list |-> <<<<"B","A","R","A","N","G","A","Y"," ","1","7","1">>>>]>>]>>]
  >>

commonAliases ==
  <<<<<<"q","c">>, <<"q","u","e","z","o","n"," ","c","i","t","y">>>>,
    <<<<"b","g","c">>, <<"t","a","g","u","i","g">>>>,
    <<<<"f","o","r","t"," ","b","o","n","i","f","a","c","i","o">>, <<"t","a","g","u","i","g">>>>,
    <<<<"g","e","n","s","a","n">>, <<"g","e","n","e","r","a","l"," ","s","a","n","t","o","s">>>>,
    <<<<"c","d","o">>, <<"c","a","g","a","y","a","n"," ","d","e"," ","o","r","o">>>>,
    <<<<"m","a","k","a","t","i"," ","c","i","t","y">>, <<"c","i","t","y"," ","o","f"," ","m","a","k","a","t","i">>>>,
    <<<<"t","a","g","u","i","g"," ","c","i","t","y">>, <<"t","a","g","u","i","g">>>>,
    <<<<"g","e","n"," ","t","r","i","a","s">>, <<"g","e","n","e","r","a","l"," ","t","r","i","a","s">>>>,
    <<<<"g","e","n","e","r","a","l"," ","t","r","i","a","s">>, <<"g","e","n","e","r","a","l"," ","t","r","i","a","s"," ","c","i","t","y">>>>,
    <<<<"m","o","n","t","a","l","b","a","n">>, <<"r","o","d","r","i","g","u","e","z"," ","m","o","n","t","a","l","b","a","n">>>>,
    <<<<"r","o","d","r","i","g","u","e","z">>, <<"r","o","d","r","i","g","u","e","z"," ","m","o","n","t","a","l","b","a","n">>>>,
    <<<<"n","o","r","t","h"," ","c","a","l","o","o","c","a","n">>, <<"c","a","l","o","o","c","a","n"," ","c","i","t","y">>>>,
    <<<<"s","o","u","t","h"," ","c","a","l","o","o","c","a","n">>, <<"c","a","l","o","o","c","a","n"," ","c","i","t","y">>>>,
    <<<<"c","a","l","o","o","c","a","n">>, <<"c","a","l","o","o","c","a","n"," ","c","i","t","y">>>>,
    <<<<"l","a","s"," ","p","i","n","a","s">>, <<"l","a","s"," ","p","i","n","a","s"," ","c","i","t","y">>>>,
    <<<<"s","a","n"," ","j","u","a","n">>, <<"s","a","n"," ","j","u","a","n"," ","c","i","t","y">>>>,
    <<<<"p","a","s","a","y">>, <<"p","a","s","a","y"," ","c","i","t","y">>>>,
    <<<<"p","a","s","i","g">>, <<"p","a","s","i","g"," ","c","i","t","y">>>>,
    <<<<"m","a","r","i","k","i","n","a">>, <<"m","a","r","i","k","i","n","a"," ","c","i","t","y">>>>,
    <<<<"m","u","n","t","i","n","l","u","p","a">>, <<"m","u","n","t","i","n","l","u","p","a"," ","c","i","t","y">>>>,
    <<<<"p","a","r","a","n","a","q","u","e">>, <<"p","a","r","a","n","a","q","u","e"," ","c","i","t","y">>>>,
    <<<<"v","a","l","e","n","z","u","e","l","a">>, <<"v","a","l","e","n","z","u","e","l","a"," ","c","i","t","y">>>>,
    <<<<"m","a","l","a","b","o","n">>, <<"m","a","l","a","b","o","n"," ","c","i","t","y">>>>,
    <<<<"n","a","v","o","t","a","s">>, <<"n","a","v","o","t","a","s"," ","c","i","t","y">>>>,
    <<<<"m","a","n","d","a","l","u","y","o","n","g">>, <<"m","a","n","d","a","l","u","y","o","n","g"," ","c","i","t","y">>>>,
    <<<<"d","a","v","a","o">>, <<"d","a","v","a","o"," ","c","i","t","y">>>>,
    <<<<"c","e","b","u">>, <<"c","e","b","u"," ","c","i","t","y">>>>,
    <<<<"z","a","m","b","o","a","n","g","a">>, <<"z","a","m","b","o","a","n","g","a"," ","c","i","t","y">>>>,
    <<<<"b","a","c","o","l","o","d">>, <<"b","a","c","o","l","o","d"," ","c","i","t","y">>>>,
    <<<<"i","l","o","i","l","o">>, <<"i","l","o","i","l","o"," ","c","i","t","y">>>>,
    <<<<"c","a","g","a","y","a","n"," ","d","e"," ","o","r","o">>, <<"c","a","g","a","y","a","n"," ","d","e"," ","o","r","o"," ","c","i","t","y">>>>,
    <<<<"g","e","n","e","r","a","l"," ","s","a","n","t","o","s">>, <<"g","e","n","e","r","a","l"," ","s","a","n","t","o","s"," ","c","i","t","y">>>>>>

priorityCities ==
  <<<<<<"b","a","c","o","l","o","d">>, <<"N","E","G","R","O","S"," ","O","C","C","I","D","E","N","T","A","L">>>>,
    <<<<"s","a","n"," ","j","u","a","n">>, <<"N","A","T","I","O","N","A","L"," ","C","A","P","I","T","A","L"," ","R","E","G","I","O","N">>>>,
    <<<<"t","a","g","u","i","g">>, <<"T","A","G","U","I","G"," ","-"," ","P","A","T","E","R","O","S">>>>,
    <<<<"m","a","k","a","t","i">>, <<"N","A","T","I","O","N","A","L"," ","C","A","P","I","T","A","L"," ","R","E","G","I","O","N">>>>,
    <<<<"q","u","e","z","o","n">>, <<"N","A","T","I","O","N","A","L"," ","C","A","P","I","T","A","L"," ","R","E","G","I","O","N">>>>>>


Empty == <<>>
\* the values null and undefined; IsNull is the test `!x` on what a lookup returned
Null == [kind |-> "null"]
Undefined == [kind |-> "undefined"]
IsNull(x) == x.kind \in {"null", "undefined"}

\* undefined where a location carries a string
undefinedField == <<"undefined">>

\* barangayIndex, cityIndex and provinceIndex are plain objects ({}): a key they do
\* not hold themselves is looked up in Object.prototype. "constructor" is the one
\* inherited name normalizeKey can produce; it yields the function Object, whose
\* length is 1 and which has no property 0, region or province
sconstructor == <<"c","o","n","s","t","r","u","c","t","o","r">>
Inherits(table, key) == key \notin DOMAIN table /\ key = sconstructor
ObjectFunction ==
  [kind |-> "function", length |-> 1, region |-> undefinedField,
   province |-> undefinedField]

\* what a call that threw leaves its caller with
Exception == [kind |-> "exception"]

(***************************************************************************)
(* PhilippineLocationIndex                                                 *)
(***************************************************************************)
reParenNote == <<Star(<<Set(Space)>>), Set({"("}), StarLazy(<<Set(AnyChar)>>), Set({")"}),
                 Star(<<Set(Space)>>)>>
reBrgyPrefix == <<BeginAnchor>> \o LitI(<<"b","r","g","y">>) \o Opt(<<Set({"."})>>)
                \o <<Star(<<Set(Space)>>)>>
reBarangayPrefix == <<BeginAnchor>> \o LitI(<<"b","a","r","a","n","g","a","y">>)
                    \o <<Star(<<Set(Space)>>)>>
reCitySuffix == Plus(<<Set(Space)>>) \o LitI(<<"c","i","t","y">>) \o <<EndAnchor>>
reSpecialChar == <<Set(AnyChar \ (Lower \cup Digit \cup Space))>>
reSpaces == Plus(<<Set(Space)>>)

Strict(v, e) == IF v = v THEN e ELSE e

\* the chain of .replace calls of normalizeKey, in order
normalizeSteps ==
  << [re |-> reParenNote, rep |-> Empty, all |-> TRUE],
     [re |-> reBrgyPrefix, rep |-> Empty, all |-> FALSE],
     [re |-> reBarangayPrefix, rep |-> Empty, all |-> FALSE],
     [re |-> reCitySuffix, rep |-> Empty, all |-> FALSE],
     [re |-> reSpecialChar, rep |-> <<" ">>, all |-> TRUE],
     [re |-> reSpaces, rep |-> <<" ">>, all |-> TRUE] >>

RECURSIVE ReplaceEach(_, _)
ReplaceEach(steps, s) ==
  IF steps = <<>> THEN s
  ELSE Strict(s, ReplaceEach(Tail(steps),
                             ReplaceFrom(Head(steps).re, s, Head(steps).rep, 1,
                                         Head(steps).all)))

normalizeKey(text) ==
  IF text = Empty THEN Empty
  ELSE trim(ReplaceEach(normalizeSteps, toLowerCase(text)))

sCITY == <<"C","I","T","Y">>
sCITY_OF == <<"C","I","T","Y"," ","O","F">>
sCITY_OF_ == <<"C","I","T","Y"," ","O","F"," ">>
s_CITY == <<" ","C","I","T","Y">>
s_City == <<" ","C","i","t","y">>
scity == <<"c","i","t","y">>

Lookup(table, key) == IF key \in DOMAIN table THEN table[key] ELSE <<>>

\* e, once v has been evaluated: the loops below update the index statement by
\* statement, as the source does, instead of building one nested expression
\* the constructor's empty indexes; cityKeys is the key order of the cityIndex object
EmptyIndex ==
  [barangayIndex |-> <<>>, cityIndex |-> <<>>, provinceIndex |-> <<>>,
   ambiguousBarangays |-> {}, ambiguousCities |-> {}, cityKeys |-> <<>>]

PutProvince(ix, region, provinceName) ==
  [ix EXCEPT !.provinceIndex =
     (normalizeKey(provinceName) :>
        [kind |-> "province", province |-> provinceName, region |-> region.region_name,
         regionCode |-> region.regionCode, cities |-> <<>>]) @@ @]

PutCityAt(ix, region, provinceName, cityRec, provinceKey, cityKey) ==
  LET cityInfo == [kind |-> "city", city |-> cityRec.name, province |-> provinceName,
                   region |-> region.region_name, regionCode |-> region.regionCode,
                   barangays |-> cityRec.barangay_list]
      entry == Append(Lookup(ix.cityIndex, cityKey), cityInfo)
  IN [ix EXCEPT !.provinceIndex[provinceKey].cities = Append(@, cityRec.name),
                !.cityIndex = (cityKey :> entry) @@ @,
                !.cityKeys = IF cityKey \in DOMAIN ix.cityIndex THEN @ ELSE Append(@, cityKey),
                !.ambiguousCities = IF Len(entry) > 1 THEN @ \cup {cityKey} ELSE @]

PutCity(ix, region, provinceName, cityRec) ==
  PutCityAt(ix, region, provinceName, cityRec,
            normalizeKey(provinceName), normalizeKey(cityRec.name))

PutBarangayAt(ix, region, provinceName, cityName, barangayName, barangayKey) ==
  LET unit == [kind |-> "barangay", barangay |-> barangayName, city |-> cityName,
               province |-> provinceName, region |-> region.region_name,
               regionCode |-> region.regionCode]
      entry == Append(Lookup(ix.barangayIndex, barangayKey), unit)
  IN [ix EXCEPT !.barangayIndex = (barangayKey :> entry) @@ @,
                !.ambiguousBarangays = IF Len(entry) > 1 THEN @ \cup {barangayKey} ELSE @]

PutBarangay(ix, region, provinceName, cityName, barangayName) ==
  PutBarangayAt(ix, region, provinceName, cityName, barangayName,
                normalizeKey(barangayName))

RECURSIVE IndexBarangays(_, _, _, _, _)
IndexBarangays(ix, region, provinceName, cityName, names) ==
  IF names = <<>> THEN ix
  ELSE Strict(ix, IndexBarangays(PutBarangay(ix, region, provinceName, cityName, Head(names)),
                                 region, provinceName, cityName, Tail(names)))

RECURSIVE IndexCities(_, _, _, _)
IndexCities(ix, region, provinceName, cities) ==
  IF cities = <<>> THEN ix
  ELSE Strict(ix,
         IndexCities(IndexBarangays(PutCity(ix, region, provinceName, Head(cities)),
                                    region, provinceName, Head(cities).name,
                                    Head(cities).barangay_list),
                     region, provinceName, Tail(cities)))

RECURSIVE IndexProvinces(_, _, _)
IndexProvinces(ix, region, provinces) ==
  IF provinces = <<>> THEN ix
  ELSE Strict(ix,
         IndexProvinces(IndexCities(PutProvince(ix, region, Head(provinces).name),
                                    region, Head(provinces).name,
                                    Head(provinces).municipality_list),
                        region, Tail(provinces)))

RECURSIVE IndexRegions(_, _)
IndexRegions(ix, regions) ==
  IF regions = <<>> THEN ix
  ELSE Strict(ix, IndexRegions(IndexProvinces(ix, Head(regions), Head(regions).province_list),
                               Tail(regions)))

\* the aliases a city named `city` under key cityKey contributes:
\* "CITY OF X" -> "x city", "x"; "X CITY" -> "x"; "X" -> "x city"
CityOfAliases(cityKey, baseName) ==
  << [alias |-> normalizeKey(baseName \o s_CITY), target |-> cityKey],
     [alias |-> normalizeKey(baseName), target |-> cityKey] >>

AliasesOfCity(cityKey, city) ==
  (IF startsWith(city, sCITY_OF_)
   THEN CityOfAliases(cityKey, ReplaceFirst(Lit(sCITY_OF_), city, Empty))
   ELSE <<>>)
  \o (IF endsWith(city, s_CITY)
      THEN << [alias |-> normalizeKey(ReplaceFirst(Lit(s_CITY), city, Empty)),
               target |-> cityKey] >>
      ELSE <<>>)
  \o (IF ~includes(city, sCITY) /\ ~startsWith(city, sCITY_OF)
      THEN << [alias |-> normalizeKey(city \o s_CITY), target |-> cityKey] >>
      ELSE <<>>)

AliasesOf(ix, cityKey) == AliasesOfCity(cityKey, ix.cityIndex[cityKey][1].city)

\* the loops of addCityAliases run over their lists in order; a list is taken
\* in halves, first the entries lo..mid and then the rest, to keep the evaluation shallow
Mid(lo, hi) == (lo + hi) \div 2

RECURSIVE CollectAliases(_, _, _, _)
CollectAliases(ix, keys, lo, hi) ==
  IF lo > hi THEN <<>>
  ELSE IF lo = hi THEN AliasesOf(ix, keys[lo])
  ELSE CollectAliases(ix, keys, lo, Mid(lo, hi))
       \o CollectAliases(ix, keys, Mid(lo, hi) + 1, hi)

\* this.cityIndex[alias] = this.cityIndex[target], unless the alias is a key already
PutAlias(ix, a) ==
  IF Lookup(ix.cityIndex, a.alias) = <<>>
  THEN [ix EXCEPT !.cityIndex = (a.alias :> ix.cityIndex[a.target]) @@ @]
  ELSE ix

RECURSIVE ApplyAliases(_, _, _, _)
ApplyAliases(ix, aliases, lo, hi) ==
  IF lo > hi THEN ix
  ELSE IF lo = hi THEN PutAlias(ix, aliases[lo])
  ELSE Strict(ix, ApplyAliases(ApplyAliases(ix, aliases, lo, Mid(lo, hi)),
                               aliases, Mid(lo, hi) + 1, hi))

\* this.cityIndex[alias] = this.cityIndex[canonicalKey], when the canonical key exists
PutCommonAlias(ix, alias, canonicalKey) ==
  IF canonicalKey \in DOMAIN ix.cityIndex
  THEN [ix EXCEPT !.cityIndex = (alias :> ix.cityIndex[canonicalKey]) @@ @]
  ELSE ix

RECURSIVE ApplyCommonAliases(_, _, _, _)
ApplyCommonAliases(ix, table, lo, hi) ==
  IF lo > hi THEN ix
  ELSE IF lo = hi THEN PutCommonAlias(ix, table[lo][1], normalizeKey(table[lo][2]))
  ELSE Strict(ix, ApplyCommonAliases(ApplyCommonAliases(ix, table, lo, Mid(lo, hi)),
                                     table, Mid(lo, hi) + 1, hi))

WithAliases(ix, aliases) ==
  ApplyCommonAliases(ApplyAliases(ix, aliases, 1, Len(aliases)),
                     commonAliases, 1, Len(commonAliases))

addCityAliases(ix) ==
  Strict(ix, WithAliases(ix, CollectAliases(ix, ix.cityKeys, 1, Len(ix.cityKeys))))

buildIndexes(data) == addCityAliases(IndexRegions(EmptyIndex, data))

\* the least element of a non-empty set of positions: Array.prototype.find takes the first
First(S) == CHOOSE i \in S : \A j \in S : i <= j

isAmbiguousBarangay(ix, barangayName) == normalizeKey(barangayName) \in ix.ambiguousBarangays

isAmbiguousCity(ix, cityName) == normalizeKey(cityName) \in ix.ambiguousCities

\* m.city against the city context: equal, or one key inside the other
CityKeyMatches(k, cityKey) == k = cityKey \/ includes(k, cityKey) \/ includes(cityKey, k)

\* m.province against the province context: equal, or the context inside the key
ProvinceKeyMatches(k, provinceKey) == k = provinceKey \/ includes(k, provinceKey)

\* the candidates of `matches` the city context selects, and those the province context selects
CityContextHits(matches, cityKey) ==
  {i \in 1..Len(matches) : CityKeyMatches(normalizeKey(matches[i].city), cityKey)}

ProvinceContextHits(matches, provinceKey) ==
  {i \in 1..Len(matches) : ProvinceKeyMatches(normalizeKey(matches[i].province), provinceKey)}

\* matches.find(...) over the selected positions, else what the code falls through to
FirstOr(hits, matches, otherwise) == IF hits # {} THEN matches[First(hits)] ELSE otherwise

BarangayAmong(matches, cityContext, provinceContext) ==
  IF matches = <<>> THEN Null
  ELSE IF Len(matches) = 1 THEN matches[1]
  ELSE FirstOr(IF cityContext # Empty
               THEN CityContextHits(matches, normalizeKey(cityContext)) ELSE {},
               matches,
               FirstOr(IF provinceContext # Empty
                       THEN ProvinceContextHits(matches, normalizeKey(provinceContext))
                       ELSE {},
                       matches, Null))

\* an inherited entry has length 1 and its element 0 is undefined
BarangayAt(ix, barangayKey, cityContext, provinceContext) ==
  IF Inherits(ix.barangayIndex, barangayKey) THEN Undefined
  ELSE BarangayAmong(Lookup(ix.barangayIndex, barangayKey), cityContext, provinceContext)

findBarangay(ix, barangayName, cityContext, provinceContext) ==
  BarangayAt(ix, normalizeKey(barangayName), cityContext, provinceContext)

IfNone(matches, otherwise) == IF matches # <<>> THEN matches ELSE otherwise

\* the cityIndex entry findCity settles on: the exact key, else the name with " City"
\* added, else the name with a trailing "City" removed
CityMatches(ix, cityName) ==
  IfNone(Lookup(ix.cityIndex, normalizeKey(cityName)),
         IF ~includes(toLowerCase(cityName), scity)
         THEN Lookup(ix.cityIndex, normalizeKey(cityName \o s_City))
         ELSE Lookup(ix.cityIndex,
                     normalizeKey(ReplaceFirst(reCitySuffix, cityName, Empty))))

PriorityOf(cityKey) ==
  LET hits == {i \in 1..Len(priorityCities) : priorityCities[i][1] = cityKey}
  IN IF hits = {} THEN Empty ELSE priorityCities[First(hits)][2]

PriorityHits(matches, priority) ==
  IF priority = Empty THEN {}
  ELSE {i \in 1..Len(matches) : includes(matches[i].province, priority)}

CityAmong(matches, cityKey, provinceContext) ==
  IF matches = <<>> THEN Null
  ELSE IF Len(matches) = 1 THEN matches[1]
  ELSE FirstOr(IF provinceContext # Empty
               THEN ProvinceContextHits(matches, normalizeKey(provinceContext)) ELSE {},
               matches,
               FirstOr(PriorityHits(matches, PriorityOf(cityKey)), matches, matches[1]))

CityAt(ix, cityName, cityKey, provinceContext) ==
  IF Inherits(ix.cityIndex, cityKey) THEN Undefined
  ELSE CityAmong(CityMatches(ix, cityName), cityKey, provinceContext)

findCity(ix, cityName, provinceContext) ==
  CityAt(ix, cityName, normalizeKey(cityName), provinceContext)

\* this.provinceIndex[provinceKey] || null
ProvinceAt(ix, provinceKey) ==
  IF provinceKey \in DOMAIN ix.provinceIndex THEN ix.provinceIndex[provinceKey]
  ELSE IF Inherits(ix.provinceIndex, provinceKey) THEN ObjectFunction
  ELSE Null

findProvince(ix, provinceName) == ProvinceAt(ix, normalizeKey(provinceName))

BarangayInCity(bMatches, cityKey) ==
  \E i \in 1..Len(bMatches) : normalizeKey(bMatches[i].city) = cityKey

CityInProvince(cMatches, provinceKey) ==
  \E i \in 1..Len(cMatches) : normalizeKey(cMatches[i].province) = provinceKey

ValidKeys(ix, barangay, city, province, barangayKey, cityKey, provinceKey) ==
  /\ (barangay # Empty /\ city # Empty)
       => BarangayInCity(Lookup(ix.barangayIndex, barangayKey), cityKey)
  /\ (city # Empty /\ province # Empty)
       => CityInProvince(Lookup(ix.cityIndex, cityKey), provinceKey)

validateHierarchy(ix, barangay, city, province) ==
  ValidKeys(ix, barangay, city, province,
            normalizeKey(barangay), normalizeKey(city), normalizeKey(province))

(***************************************************************************)
(* HierarchicalLocationParserV2 (hierarchical-parser-v2.js)                *)
(***************************************************************************)
Sp == Set(Space)
Spaces0 == <<Star(<<Sp>>)>>
Spaces1 == Plus(<<Sp>>)
\* (?:w1|w2|...) under flag i
AnyOfI(words) == <<Alt([i \in 1..Len(words) |-> LitI(words[i])])>>
AnyOf(words) == <<Alt([i \in 1..Len(words) |-> Lit(words[i])])>>

STRONG_LOCATION_INDICATORS ==
  << <<WordB>> \o AnyOfI(<<<<"l","o","c","a","t","i","o","n">>, <<"a","d","d","r","e","s","s">>>>) \o Spaces0
       \o AnyOfI(<<<<"i","s">>, <<"=">>, <<":">>>>) \o Spaces0,
     <<WordB>> \o LitI(<<"h","e","r","e">>) \o Spaces1 \o LitI(<<"i","n">>) \o <<WordB>>,
     <<WordB>> \o AnyOfI(<<<<"f","r","o","m">>, <<"a","t">>>>) \o Spaces1,
     <<WordB>> \o AnyOfI(<<<<"t","a","g","a">>, <<"d","i","t","o">>, <<"r","i","t","o">>, <<"n","a","s","a">>, <<"s","a">>>>) \o Spaces1,
     Lit(<<",">>) \o Spaces0 \o LitI(<<"P","H","I","L","I","P","P","I","N","E","S">>) \o Spaces0 \o <<EndAnchor>> >>

WEAK_LOCATION_INDICATORS ==
  << <<WordB>> \o AnyOfI(<<<<"i","n">>, <<"n","e","a","r">>, <<"a","r","o","u","n","d">>>>) \o Spaces1,
     Spaces1 \o LitI(<<"a","r","e","a">>) \o <<WordB>>,
     <<WordB>> \o AnyOfI(<<<<"m","y">>, <<"o","u","r">>, <<"a","m","i","n","g">>>>) \o Spaces1
       \o AnyOfI(<<<<"a","r","e","a">>, <<"l","o","c","a","t","i","o","n">>, <<"p","l","a","c","e">>>>) \o Spaces1,
     LitI(<<"s","a">>) \o Spaces1 \o LitI(<<"a","r","e","a">>) \o Spaces1 \o LitI(<<"n","a","m","i","n">>) \o Spaces1
       \o LitI(<<"s","a">>) >>

SLANG_PATTERNS ==
  << <<WordB>> \o LitI(<<"A","F">>) \o <<WordB>>,
     <<WordB>> \o LitI(<<"h","e","h","e">>) \o <<WordB>>,
     <<WordB>> \o LitI(<<"h","a","h","a">>),
     <<WordB>> \o LitI(<<"l","o","l">>) \o <<WordB>> >>

SERVICE_NAMES ==
  {<<"g","l","o","b","e">>, <<"s","m","a","r","t">>, <<"p","l","d","t">>, <<"c","o","n","v","e","r","g","e">>, <<"d","i","t","o">>, <<"s","k","y">>, <<"g","o","m","o">>,
   <<"f","i","b","r">>, <<"f","i","b","e","r">>, <<"d","s","l">>, <<"b","r","o","a","d","b","a","n","d">>, <<"w","i","f","i">>, <<"i","n","t","e","r","n","e","t">>,
   <<"g","l","o","b","e","a","t","h","o","m","e">>, <<"s","k","y","f","i","b","e","r">>, <<"s","m","a","r","t","b","r","o">>, <<"l","o","s">>, <<"r","e","d">>}

STOPWORDS ==
  {<<"j","a","n","u","a","r","y">>, <<"f","e","b","r","u","a","r","y">>, <<"m","a","r","c","h">>, <<"a","p","r","i","l">>, <<"m","a","y">>, <<"j","u","n","e">>,
   <<"j","u","l","y">>, <<"a","u","g","u","s","t">>, <<"s","e","p","t","e","m","b","e","r">>, <<"o","c","t","o","b","e","r">>, <<"n","o","v","e","m","b","e","r">>, <<"d","e","c","e","m","b","e","r">>,
   <<"j","a","n">>, <<"f","e","b">>, <<"m","a","r">>, <<"a","p","r">>, <<"j","u","n">>, <<"j","u","l">>, <<"a","u","g">>, <<"s","e","p">>, <<"s","e","p","t">>, <<"o","c","t">>, <<"n","o","v">>, <<"d","e","c">>,
   <<"m","o","n","d","a","y">>, <<"t","u","e","s","d","a","y">>, <<"w","e","d","n","e","s","d","a","y">>, <<"t","h","u","r","s","d","a","y">>, <<"f","r","i","d","a","y">>, <<"s","a","t","u","r","d","a","y">>, <<"s","u","n","d","a","y">>,
   <<"t","o","d","a","y">>, <<"y","e","s","t","e","r","d","a","y">>, <<"t","o","m","o","r","r","o","w">>, <<"k","a","h","a","p","o","n">>, <<"b","u","k","a","s">>, <<"n","g","a","y","o","n">>,
   <<"6","a","m">>, <<"1","0","a","m">>, <<"1","1">>,
   <<"s","a","m","e">>, <<"j","u","s","t">>, <<"w","a","l","a">>, <<"d","o","w","n">>, <<"h","e","r","e">>, <<"t","h","e","r","e">>,
   <<"e","v","e","r","y">>, <<"s","a","r","a","d","o">>, <<"a","p","p","a","r","e","n","t","l","y">>, <<"p","a","r","e">>,
   <<"p","r","o","b","l","e","m">>, <<"i","s","s","u","e">>, <<"s","e","r","v","i","c","e">>, <<"h","a","p","p","e","n","i","n","g">>, <<"f","r","u","s","t","r","a","t","i","n","g">>,
   <<"i","n","s","t","a","l","l","e","d">>, <<"l","i","g","h","t">>, <<"b","l","i","n","k","i","n","g">>, <<"o","u","t","a","g","e">>}

reLocationColon == <<WordB>> \o LitI(<<"L","o","c","a","t","i","o","n",":">>) \o Spaces0
reBrgyComma == <<WordB>> \o AnyOfI(<<<<"b","r","g","y">>, <<"b","a","r","a","n","g","a","y">>>>) \o Opt(Lit(<<".">>)) \o Spaces1
               \o Plus(<<Set(WordChar)>>) \o Spaces0 \o Lit(<<",">>) \o Spaces0
               \o Plus(<<Set(WordChar)>>)
reWordArea == <<WordB>> \o Plus(<<Set(WordChar)>>) \o Spaces1 \o LitI(<<"a","r","e","a">>) \o <<WordB>>
rePhilippines == LitI(<<"P","H","I","L","I","P","P","I","N","E","S">>)

AnyTest(patterns, text) == \E i \in 1..Len(patterns) : Test(patterns[i], text)
CountTest(patterns, text) == Cardinality({i \in 1..Len(patterns) : Test(patterns[i], text)})
Max(a, b) == IF a >= b THEN a ELSE b
Min(a, b) == IF a <= b THEN a ELSE b

\* confidence = Math.max(confidence, floor) under a test, and confidence *= 0.3
RaiseIf(found, confidence, floor) == IF found THEN Max(confidence, floor) ELSE confidence
ReduceIf(found, confidence) == IF found THEN (confidence * 3) \div 10 ELSE confidence

\* confidence in hundredths: 0.4 is 40
calculateConfidence(text) ==
  Min(ReduceIf(AnyTest(SLANG_PATTERNS, text),
        RaiseIf(Test(rePhilippines, text),
          RaiseIf(Test(reWordArea, text),
            RaiseIf(Test(reBrgyComma, text),
              RaiseIf(Test(reLocationColon, text),
                      (IF AnyTest(STRONG_LOCATION_INDICATORS, text) THEN 40 ELSE 0)
                        + 20 * CountTest(WEAK_LOCATION_INDICATORS, text),
                      80),
              70),
            50),
          60)),
      100)

LetterOrSpace == Letter \cup Space
reDigitsOnly == <<BeginAnchor>> \o Plus(<<Set(Digit)>>) \o <<EndAnchor>>

isStopword(word) ==
  \/ word = Empty
  \/ toLowerCase(word) \in STOPWORDS
  \/ toLowerCase(word) \in SERVICE_NAMES
  \/ Test(reDigitsOnly, word)

Candidate(type, name, context, parts) ==
  [type |-> type, name |-> name, context |-> context, parts |-> parts]

RECURSIVE ConcatMap(_, _)
\* the concatenation of F(s[1]), F(s[2]), ...
ConcatMap(F(_), s) == IF s = <<>> THEN <<>> ELSE F(Head(s)) \o ConcatMap(F, Tail(s))

RECURSIVE SplitFrom(_, _, _)
\* str.split(/[seps]+/) without its empty pieces
SplitFrom(s, i, seps) ==
  IF i > Len(s) THEN <<>>
  ELSE IF s[i] \in seps THEN SplitFrom(s, i + 1, seps)
  ELSE LET j == First({k \in (i + 1)..(Len(s) + 1) : k = Len(s) + 1 \/ s[k] \in seps})
       IN <<Sub(s, i, j)>> \o SplitFrom(s, j, seps)

PartCandidate(part) ==
  IF Len(part) > 2 /\ ~isStopword(part)
  THEN <<Candidate("location", part, Empty, <<>>)>> ELSE <<>>

parseCandidateString(str) == ConcatMap(PartCandidate, SplitFrom(str, 1, {",", " "}))

reSlangWord == <<WordB>> \o AnyOfI(<<<<"h","e","h","e">>, <<"h","a","h","a">>, <<"l","o","l">>>>) \o <<WordB>>
reDirection == <<BeginAnchor>> \o AnyOfI(<<<<"N","o","r","t","h">>, <<"S","o","u","t","h">>, <<"E","a","s","t">>, <<"W","e","s","t">>>>) \o Spaces1

\* the abbreviations cleanCityName expands, by the cleaned name in lower case
ExpandAbbreviation(cleaned, lower) ==
  CASE lower = <<"g","e","n"," ","t","r","i","a","s">> -> <<"G","e","n","e","r","a","l"," ","T","r","i","a","s">>
    [] lower = <<"q","c">> -> <<"Q","u","e","z","o","n"," ","C","i","t","y">>
    [] lower = <<"b","g","c">> -> <<"T","a","g","u","i","g">>
    [] lower = <<"m","o","n","t","a","l","b","a","n">> -> <<"R","o","d","r","i","g","u","e","z">>
    [] OTHER -> cleaned

Expanded(cleaned) == ExpandAbbreviation(cleaned, toLowerCase(cleaned))

cleanCityName(cityName) ==
  Expanded(ReplaceFirst(reDirection,
                        trim(ReplaceAll(reSlangWord, trim(cityName), Empty)), Empty))

reHashtag == Lit(<<"#">>) \o Group(1, <<Set(Letter), Star(<<Set(Letter \cup Digit)>>)>>)

\* tag.replace(/([a-z])([A-Z])/g, '$1 $2')
RECURSIVE CamelSplit(_)
CamelSplit(tag) ==
  IF Len(tag) < 2 THEN tag
  ELSE IF tag[1] \in Lower /\ tag[2] \in Upper
       THEN <<tag[1], " ">> \o CamelSplit(Tail(tag))
       ELSE <<tag[1]>> \o CamelSplit(Tail(tag))

RECURSIVE ReplaceHashtags(_, _)
RECURSIVE ReplaceHashtag(_, _, _)
ReplaceHashtags(s, from) == ReplaceHashtag(Exec(reHashtag, s, from), s, from)

ReplaceHashtag(m, s, from) ==
  IF ~m.ok THEN Sub(s, from, Len(s) + 1)
  ELSE Sub(s, from, m.b) \o <<" ">> \o CamelSplit(Cap(s, m, 1))
       \o ReplaceHashtags(s, m.e)

reQC == <<WordB>> \o LitI(<<"Q","C">>) \o <<WordB>>
reBGC == <<WordB>> \o LitI(<<"B","G","C">>) \o <<WordB>>
reGensan == <<WordB>> \o LitI(<<"G","e","n","s","a","n">>) \o <<WordB>>
reCDO == <<WordB>> \o LitI(<<"C","D","O">>) \o <<WordB>>
reGenTrias == <<WordB>> \o LitI(<<"G","e","n">>) \o Spaces1 \o LitI(<<"T","r","i","a","s">>) \o <<WordB>>

preprocessText(text) ==
  LET p1 == ReplaceHashtags(text, 1)
      p2 == ReplaceAll(reQC, p1, <<"Q","u","e","z","o","n"," ","C","i","t","y">>)
      p3 == ReplaceAll(reBGC, p2, <<"T","a","g","u","i","g">>)
      p4 == ReplaceAll(reGensan, p3, <<"G","e","n","e","r","a","l"," ","S","a","n","t","o","s">>)
      p5 == ReplaceAll(reCDO, p4, <<"C","a","g","a","y","a","n"," ","d","e"," ","O","r","o">>)
  IN ReplaceAll(reGenTrias, p5, <<"G","e","n","e","r","a","l"," ","T","r","i","a","s">>)

\* Pattern 1: explicit location declaration
locationPattern ==
  <<WordB>> \o LitI(<<"l","o","c","a","t","i","o","n">>) \o Spaces0 \o AnyOfI(<<<<"i","s">>, <<"=">>, <<":">>>>) \o Spaces0
  \o Group(1, Plus(<<Set(AnyChar \ {".", ","})>>))

BrgyWord == <<WordB>> \o AnyOfI(<<<<"b","r","g","y">>, <<"b","a","r","a","n","g","a","y">>>>) \o Opt(Lit(<<".">>)) \o Spaces1
DotOrEnd == <<Alt(<<Lit(<<".">>), <<EndAnchor>>>>)>>
DotCommaOrEnd == <<Alt(<<Lit(<<".">>), Lit(<<",">>), <<EndAnchor>>>>)>>
NotDot == Set(AnyChar \ {"."})

\* Pattern 2: barangay + city combinations
barangayPatterns ==
  << BrgyWord \o Group(1, Plus(<<Set(Digit)>>)) \o Spaces0 \o Lit(<<",">>) \o Spaces0
       \o Group(2, PlusLazy(<<NotDot>>)) \o DotOrEnd,
     BrgyWord \o Group(1, <<Set(Letter), StarLazy(<<Set(LetterOrSpace)>>)>>) \o Spaces1
       \o Group(2, <<Set(Letter)>> \o PlusLazy(<<Set(LetterOrSpace)>>)) \o DotCommaOrEnd,
     BrgyWord \o Group(1, <<Set(Letter), StarLazy(<<Set(LetterOrSpace)>>)>>) \o Spaces0
       \o Lit(<<",">>) \o Spaces0 \o Group(2, PlusLazy(<<NotDot>>)) \o DotOrEnd >>

\* Pattern 3: comma-separated locations (City, Province)
CapWord == <<Set(Upper)>> \o Plus(<<Set(Letter)>>)
CapWords == CapWord \o <<Star(Spaces1 \o CapWord)>>
commaPattern ==
  <<WordB>> \o Group(1, CapWords) \o Spaces0 \o Lit(<<",">>) \o Spaces0 \o Group(2, CapWords)
reBrgyStart == <<BeginAnchor>> \o AnyOfI(<<<<"b","r","g","y">>, <<"b","a","r","a","n","g","a","y">>>>)

\* Pattern 4: area references
areaPattern ==
  <<WordB>> \o Group(1, <<Set(Letter)>> \o PlusLazy(<<Set(WordChar \cup Space \cup {"-"})>>))
  \o Spaces1 \o LitI(<<"a","r","e","a">>) \o <<WordB>>

\* Pattern 5: after location indicators
ContextEnd == <<Alt(<<Lit(<<".">>), Lit(<<",">>), LitI(<<"a","r","e","a">>), <<EndAnchor>>>>)>>
ContextEndCase == <<Alt(<<Lit(<<".">>), Lit(<<",">>), Lit(<<"a","r","e","a">>), <<EndAnchor>>>>)>>
contextPatterns ==
  << <<WordB>> \o AnyOf(<<<<"f","r","o","m">>, <<"i","n">>, <<"a","t">>>>) \o Spaces1
       \o Group(1, <<Set(Upper)>> \o PlusLazy(<<Set(LetterOrSpace)>>)) \o ContextEndCase,
     <<WordB>> \o AnyOfI(<<<<"t","a","g","a">>, <<"n","a","s","a">>, <<"s","a">>>>) \o Spaces1
       \o Group(1, PlusLazy(<<Set(LetterOrSpace)>>)) \o ContextEnd,
     <<WordB>> \o AnyOfI(<<<<"d","i","t","o">>, <<"r","i","t","o">>>>) \o Spaces1 \o Opt(LitI(<<"s","a">>) \o Spaces1)
       \o Group(1, PlusLazy(<<Set(LetterOrSpace)>>)) \o ContextEnd,
     <<WordB>> \o LitI(<<"h","e","r","e">>) \o Spaces1 \o LitI(<<"i","n">>) \o Spaces1
       \o Group(1, PlusLazy(<<Set(LetterOrSpace)>>)) \o ContextEnd,
     LitI(<<"s","a">>) \o Spaces1 \o LitI(<<"a","r","e","a">>) \o Spaces1 \o LitI(<<"n","a","m","i","n">>) \o Spaces1
       \o LitI(<<"s","a">>) \o Spaces1 \o Group(1, PlusLazy(<<Set(LetterOrSpace)>>))
       \o DotCommaOrEnd >>

\* Pattern 6: space-separated location sequences
sequencePattern ==
  <<WordB>> \o Group(1, Plus(<<Set(Letter)>>)) \o Spaces1 \o Group(2, Plus(<<Set(Letter)>>))
  \o Spaces1 \o Group(3, Plus(<<Set(Letter)>>)) \o <<WordB>>

\* Pattern 7: what comes before PHILIPPINES
beforePhilippinesPattern ==
  Group(1, PlusLazy(<<Set(AnyChar \ {","})>>)) \o Spaces0 \o Opt(Lit(<<",">>)) \o Spaces0
  \o LitI(<<"P","H","I","L","I","P","P","I","N","E","S">>)

sBarangay_ == <<"B","a","r","a","n","g","a","y"," ">>

extractCandidates(text) ==
  LET processed == preprocessText(text)
      FromLocation(m) == parseCandidateString(Cap(text, m, 1))
      FromBarangay(m) ==
        LET g1 == Cap(text, m, 1)
            g2 == Cap(text, m, 2)
        IN (IF g1 # Empty
            THEN <<Candidate("barangay",
                             IF Test(reDigitsOnly, g1) THEN sBarangay_ \o g1 ELSE g1,
                             IF g2 # Empty THEN trim(g2) ELSE Empty, <<>>)>>
            ELSE <<>>)
           \o (IF g2 # Empty
               THEN <<Candidate("city", cleanCityName(g2), Empty, <<>>)>>
               ELSE <<>>)
      FromBarangayPattern(pattern) == ConcatMap(FromBarangay, ExecAll(pattern, text, 1))
      FromComma(m) ==
        IF ~Test(reBrgyStart, Cap(text, m, 1))
        THEN <<Candidate("location", trim(Cap(text, m, 1)), Empty, <<>>),
               Candidate("location", trim(Cap(text, m, 2)), Empty, <<>>)>>
        ELSE <<>>
      FromArea(m) ==
        IF ~isStopword(trim(Cap(text, m, 1)))
        THEN <<Candidate("area", trim(Cap(text, m, 1)), Empty, <<>>)>>
        ELSE <<>>
      FromContext(m) == <<Candidate("location", trim(Cap(processed, m, 1)), Empty, <<>>)>>
      FromContextPattern(pattern) == ConcatMap(FromContext, ExecAll(pattern, processed, 1))
      lowered == toLowerCase(text)
      FromSequence(m) ==
        LET words == <<Cap(lowered, m, 1), Cap(lowered, m, 2), Cap(lowered, m, 3)>>
        IN IF \A i \in 1..3 : ~isStopword(words[i]) /\ words[i] \notin SERVICE_NAMES
           THEN <<Candidate("sequence", Empty, Empty, words)>>
           ELSE <<>>
      before == Exec(beforePhilippinesPattern, text, 1)
  IN ConcatMap(FromLocation, ExecAll(locationPattern, text, 1))
     \o ConcatMap(FromBarangayPattern, barangayPatterns)
     \o ConcatMap(FromComma, ExecAll(commaPattern, text, 1))
     \o ConcatMap(FromArea, ExecAll(areaPattern, text, 1))
     \o ConcatMap(FromContextPattern, contextPatterns)
     \o ConcatMap(FromSequence, ExecAll(sequencePattern, lowered, 1))
     \o (IF Test(rePhilippines, text) /\ before.ok
         THEN parseCandidateString(Cap(text, before, 1))
         ELSE <<>>)

(* ---------- findBestMatch and parseLocation ---------- *)
\* config.minConfidence, in thousandths
minConfidence == 300

\* a city-level location that names the region where the province belongs
CityLocationMisplaced(cityMatch) ==
  [kind |-> "location", region |-> cityMatch.region, province |-> cityMatch.region,
   city |-> cityMatch.city, barangay |-> Empty]

\* a location built from a city or a province entry; levels it lacks are ''
CityLocation(cityMatch) ==
  [kind |-> "location", region |-> cityMatch.region, province |-> cityMatch.province,
   city |-> cityMatch.city, barangay |-> Empty]

\* a province-level location that repeats the province as its city
ProvinceLocationAsCity(provinceMatch) ==
  [kind |-> "location", region |-> provinceMatch.region,
   province |-> provinceMatch.province, city |-> provinceMatch.province,
   barangay |-> Empty]

ProvinceLocation(provinceMatch) ==
  [kind |-> "location", region |-> provinceMatch.region,
   province |-> provinceMatch.province, city |-> Empty, barangay |-> Empty]

\* `barangayMatch.length === 1` on the object findBarangay returns
HasLengthOne(unit) == FALSE

\* locationMatch and base score (in tenths) a candidate ends with
Outcome(locationMatch, score) == [locationMatch |-> locationMatch, score |-> score]

NoOutcome == Outcome(Null, 0)

BarangayOutcome(barangayMatch, score) ==
  IF ~IsNull(barangayMatch) THEN Outcome(barangayMatch, score) ELSE NoOutcome

AreaOutcome(barangayMatch, cityMatch) ==
  IF ~IsNull(barangayMatch) /\ HasLengthOne(barangayMatch) THEN Outcome(barangayMatch, 6)
  ELSE IF ~IsNull(cityMatch) THEN Outcome(CityLocation(cityMatch), 7)
  ELSE NoOutcome

\* the generic branch: three lookups in a row, each overwriting the one before
AfterBarangay(barangayMatch, ambiguous) ==
  IF ~IsNull(barangayMatch) /\ ~ambiguous THEN Outcome(barangayMatch, 5) ELSE NoOutcome

AfterCity(before, cityMatch) ==
  IF ~IsNull(cityMatch) THEN Outcome(CityLocation(cityMatch), 6) ELSE before

AfterProvince(before, provinceMatch) ==
  IF ~IsNull(provinceMatch) THEN Outcome(ProvinceLocation(provinceMatch), 4) ELSE before

GenericOutcome(ix, name) ==
  AfterProvince(AfterCity(AfterBarangay(findBarangay(ix, name, Empty, Empty),
                                        isAmbiguousBarangay(ix, name)),
                          findCity(ix, name, Empty)),
                findProvince(ix, name))

CandidateOutcome(ix, candidate) ==
  IF candidate.type = "barangay"
  THEN BarangayOutcome(findBarangay(ix, candidate.name, candidate.context, Empty), 8)
  ELSE IF candidate.type = "area"
  THEN AreaOutcome(findBarangay(ix, candidate.name, Empty, Empty),
                   findCity(ix, candidate.name, Empty))
  ELSE IF candidate.type = "sequence"
  THEN BarangayOutcome(findBarangay(ix, candidate.parts[1], candidate.parts[2], Empty), 7)
  ELSE GenericOutcome(ix, candidate.name)

\* score after the confidence boost, in thousandths (confidence is in hundredths)
BoostedScore(outcome, confidence) == outcome.score * (100 + confidence)

NoBest == [bestMatch |-> Null, bestScore |-> 0]

\* one turn of the loop that takes every match, whatever its score
ConsiderLast(best, outcome, confidence) ==
  IF ~IsNull(outcome.locationMatch)
  THEN [bestMatch |-> outcome.locationMatch,
        bestScore |-> BoostedScore(outcome, confidence)]
  ELSE best

\* one turn of the loop: a match whose boosted score is greater becomes the best
Consider(best, outcome, confidence) ==
  IF ~IsNull(outcome.locationMatch) /\ BoostedScore(outcome, confidence) > best.bestScore
  THEN [bestMatch |-> outcome.locationMatch,
        bestScore |-> BoostedScore(outcome, confidence)]
  ELSE best

RECURSIVE BestFrom(_, _, _, _)
BestFrom(ix, candidates, confidence, best) ==
  IF candidates = <<>> THEN best
  ELSE Strict(best,
         BestFrom(ix, Tail(candidates), confidence,
                  Consider(best, CandidateOutcome(ix, Head(candidates)), confidence)))

Threshold(best) == IF best.bestScore < minConfidence THEN Null ELSE best.bestMatch

findBestMatch(ix, candidates, confidence) ==
  Threshold(BestFrom(ix, candidates, confidence, NoBest))

(***************************************************************************)
(* The false positive filter (false-positive-filter.js)                    *)
(***************************************************************************)
FILIPINO_FUNCTION_WORDS ==
  {<<"p","a","r","a","n","g">>, <<"i","b","a">>, <<"b","a">>, <<"p","a">>, <<"n","a">>,
   <<"n","a","m","a","n">>, <<"d","i","n">>, <<"d","a","w">>, <<"r","a","w">>, <<"s","a","n","a">>,
   <<"k","a","y","a">>, <<"n","a","n","g">>, <<"n","g","a">>, <<"p","a","l","a">>,
   <<"l","a","n","g">>, <<"l","a","m","a","n","g">>, <<"k","a","h","i","t">>, <<"k","u","n","g">>,
   <<"k","a","s","i">>, <<"p","e","r","o">>, <<"a","t">>, <<"o">>, <<"n","i">>, <<"n","g">>,
   <<"s","a">>, <<"r","i","n">>, <<"d","i","t","o">>, <<"r","i","t","o">>, <<"d","o","o","n">>,
   <<"r","o","o","n">>, <<"d","y","a","n">>, <<"r","y","a","n">>, <<"s","a","a","n">>,
   <<"b","a","k","i","t">>, <<"p","a","a","n","o">>, <<"s","i","n","o">>, <<"a","n","o">>,
   <<"a","l","i","n">>, <<"a","l","i","n","g">>, <<"e","h">>, <<"h","a">>, <<"o","o">>,
   <<"o","p","o">>, <<"h","i","n","d","i">>, <<"h","u","w","a","g">>, <<"a","y","a","w">>,
   <<"a","k","o">>, <<"i","k","a","w">>, <<"s","i","y","a">>, <<"k","a","m","i">>,
   <<"k","a","y","o">>, <<"s","i","l","a">>, <<"t","a","y","o">>, <<"k","o">>, <<"m","o">>,
   <<"n","i","y","a">>, <<"n","a","m","i","n">>, <<"n","a","t","i","n">>, <<"n","i","n","y","o">>,
   <<"n","i","l","a">>, <<"a","k","i","n">>, <<"i","y","o">>, <<"k","a","n","i","y","a">>,
   <<"a","m","i","n">>, <<"a","t","i","n">>, <<"i","n","y","o">>, <<"k","a","n","i","l","a">>,
   <<"k","a","n","y","a">>, <<"s","a","r","i","l","i">>, <<"n","i","t","o">>, <<"n","y","a","n">>,
   <<"n","i","y","a","n">>, <<"n","o","o","n">>, <<"n","g","a","y","o","n">>, <<"w","a","l","a">>,
   <<"m","e","r","o","n">>, <<"m","a","y">>, <<"m","a","y","r","o","o","n">>,
   <<"w","a","l","a","n","g">>, <<"l","a","h","a","t">>, <<"b","a","w","a","t">>,
   <<"k","a","d","a">>, <<"i","l","a","n">>, <<"m","a","r","a","m","i">>, <<"k","o","n","t","i">>,
   <<"k","a","u","n","t","i">>, <<"i","s","a">>, <<"d","a","l","a","w","a">>,
   <<"t","a","t","l","o">>, <<"a","p","a","t">>, <<"l","i","m","a">>, <<"a","n","i","m">>,
   <<"p","i","t","o">>, <<"w","a","l","o">>, <<"s","i","y","a","m">>, <<"s","a","m","p","u">>,
   <<"s","o","b","r","a">>, <<"k","u","l","a","n","g">>, <<"t","a","m","a">>, <<"m","a","l","i">>,
   <<"t","o","t","o","o">>, <<"t","u","n","a","y">>, <<"t","a","l","a","g","a">>,
   <<"a","r","a","w">>, <<"g","a","b","i">>, <<"u","m","a","g","a">>, <<"h","a","p","o","n">>,
   <<"t","a","n","g","h","a","l","i">>, <<"m","a","d","a","l","i","n","g"," ","a","r","a","w">>,
   <<"k","a","h","a","p","o","n">>, <<"b","u","k","a","s">>, <<"k","a","n","i","n","a">>,
   <<"m","a","m","a","y","a">>, <<"m","a","y","a">>, <<"m","i","n","s","a","n">>,
   <<"l","a","g","i">>, <<"p","a","l","a","g","i">>, <<"m","a","d","a","l","a","s">>,
   <<"b","i","h","i","r","a">>, <<"o","r","a","s">>, <<"m","i","n","u","t","o">>,
   <<"s","e","g","u","n","d","o">>, <<"l","i","n","g","g","o">>, <<"b","u","w","a","n">>,
   <<"t","a","o","n">>, <<"s","a","n","d","a","l","i">>, <<"s","a","g","l","i","t">>,
   <<"n","g","a","y","o","n","g"," ","a","r","a","w">>, <<"k","a","g","a","b","i">>,
   <<"k","a","n","i","n","a","n","g"," ","u","m","a","g","a">>, <<"b","a","g","o">>,
   <<"l","u","m","a">>, <<"m","a","l","a","k","i">>, <<"m","a","l","i","i","t">>,
   <<"m","a","b","i","l","i","s">>, <<"m","a","b","a","g","a","l">>, <<"m","a","h","a","b","a">>,
   <<"m","a","i","k","l","i">>, <<"m","a","t","a","n","d","a">>, <<"b","a","t","a">>,
   <<"m","a","g","a","n","d","a">>, <<"p","a","n","g","i","t">>, <<"m","a","h","a","l">>,
   <<"m","u","r","a">>, <<"m","a","i","n","i","t">>, <<"m","a","l","a","m","i","g">>,
   <<"m","a","t","a","a","s">>, <<"m","a","b","a","b","a">>, <<"m","a","l","a","y","o">>,
   <<"m","a","l","a","p","i","t">>, <<"m","a","g","a","a","n">>, <<"m","a","b","i","g","a","t">>,
   <<"m","a","s","a","y","a">>, <<"m","a","l","u","n","g","k","o","t">>, <<"g","a","w","a">>,
   <<"s","a","b","i">>, <<"k","a","i","n">>, <<"i","n","o","m">>, <<"t","u","l","o","g">>,
   <<"g","i","s","i","n","g">>, <<"l","a","k","a","d">>, <<"t","a","k","b","o">>,
   <<"l","a","r","o">>, <<"t","r","a","b","a","h","o">>, <<"a","r","a","l">>, <<"b","a","s","a">>,
   <<"s","u","l","a","t">>, <<"b","i","l","i">>, <<"b","a","y","a","d">>, <<"s","a","k","a","y">>,
   <<"b","a","b","a">>, <<"p","a","s","o","k">>, <<"l","a","b","a","s">>,
   <<"d","a","t","i","n","g">>, <<"a","l","i","s">>, <<"u","w","i">>, <<"b","a","l","i","k">>,
   <<"p","u","n","t","a">>, <<"t","u","l","o","y">>, <<"t","i","g","i","l">>,
   <<"s","i","m","u","l","a">>, <<"t","a","p","o","s">>, <<"d","a","h","i","l">>,
   <<"s","a","p","a","g","k","a","t">>, <<"s","u","b","a","l","i","t">>,
   <<"d","a","t","a","p","w","a","t">>, <<"s","a","m","a","n","t","a","l","a">>,
   <<"g","a","y","u","n","m","a","n">>, <<"g","a","y","u","n","p","a","m","a","n">>,
   <<"b","a","g","a","m","a","t">>, <<"n","g","u","n","i","t">>, <<"u","p","a","n","g">>,
   <<"k","a","p","a","g">>, <<"p","a","g">>, <<"s","a","k","a","l","i">>, <<"b","a","k","a">>,
   <<"s","i","g","u","r","o">>, <<"m","a","r","a","h","i","l">>, <<"n","a","k","u">>,
   <<"h","a","y">>, <<"h","a","l","a">>, <<"a","b","a">>, <<"s","u","s">>,
   <<"d","i","y","o","s"," ","k","o">>, <<"g","r","a","b","e">>, <<"s","a","y","a","n","g">>,
   <<"s","i","g","e">>, <<"t","a","r","a">>, <<"h","a","l","i","k","a">>, <<"t","e","k","a">>,
   <<"h","i","n","t","a","y">>, <<"t","i","g","n","a","n">>}

ENGLISH_FALSE_POSITIVES ==
  {<<"r","e","a","l">>, <<"g","o","a","l">>, <<"g","o","a","l","s">>, <<"u","s","u","a","l">>,
   <<"u","s","u","a","l","l","y">>, <<"f","a","c","e">>, <<"f","a","c","e","b","o","o","k">>,
   <<"b","o","o","k">>, <<"b","o","o","k","s">>, <<"l","o","a","d">>,
   <<"l","o","a","d","i","n","g">>, <<"l","o","a","d","e","d">>, <<"u","p","l","o","a","d">>,
   <<"d","o","w","n","l","o","a","d">>, <<"r","e","l","o","a","d">>, <<"a","l","o","n","e">>,
   <<"l","o","a","n">>, <<"l","o","a","n","s">>, <<"c","a","n">>, <<"c","a","n","t">>,
   <<"c","a","n","n","o","t">>, <<"b","a","n">>, <<"b","a","n","s">>, <<"b","a","n","n","e","d">>,
   <<"p","a","n">>, <<"p","a","n","s">>, <<"t","a","n">>, <<"t","a","n","s">>, <<"m","a","n">>,
   <<"m","e","n">>, <<"n","e","w">>, <<"n","e","w","s">>, <<"n","e","w","e","r">>,
   <<"n","e","w","e","s","t">>, <<"r","e","n","e","w">>, <<"l","a","g">>,
   <<"l","a","g","g","i","n","g">>, <<"l","a","g","s">>, <<"p","i","n","g">>,
   <<"p","i","n","g","s">>, <<"p","i","n","g","e","d">>, <<"p","l","a","n">>,
   <<"p","l","a","n","s">>, <<"p","l","a","n","n","i","n","g">>, <<"p","l","a","n","n","e","d">>,
   <<"p","a","s","s">>, <<"p","a","s","s","e","d">>, <<"p","a","s","s","i","n","g">>,
   <<"p","a","s","s","w","o","r","d">>, <<"d","a","t","a">>, <<"d","a","t","a","b","a","s","e">>,
   <<"u","p","d","a","t","e">>, <<"u","p","d","a","t","e","s">>, <<"s","e","r","v","i","c","e">>,
   <<"s","e","r","v","i","c","e","s">>, <<"s","e","r","v","i","c","i","n","g">>,
   <<"a","n","n","o","u","n","c","e">>, <<"a","n","n","o","u","n","c","e","d">>,
   <<"a","n","n","o","u","n","c","e","m","e","n","t">>,
   <<"a","n","n","o","u","n","c","i","n","g">>, <<"r","e","g","i","s","t","e","r">>,
   <<"r","e","g","i","s","t","e","r","e","d">>,
   <<"r","e","g","i","s","t","r","a","t","i","o","n">>,
   <<"r","e","g","i","s","t","e","r","i","n","g">>, <<"a","p","p","l","y">>,
   <<"a","p","p","l","i","e","d">>, <<"a","p","p","l","i","c","a","t","i","o","n">>,
   <<"a","p","p","l","y","i","n","g">>, <<"p","a","y">>, <<"p","a","i","d">>,
   <<"p","a","y","m","e","n","t">>, <<"p","a","y","i","n","g">>, <<"s","a","y">>,
   <<"s","a","i","d">>, <<"s","a","y","i","n","g">>, <<"s","a","y","s">>, <<"d","o","w","n">>,
   <<"u","p">>, <<"o","n","l","i","n","e">>, <<"o","f","f","l","i","n","e">>,
   <<"a","c","t","i","v","e">>, <<"i","n","a","c","t","i","v","e">>, <<"g","o","o","d">>,
   <<"b","a","d">>, <<"b","e","t","t","e","r">>, <<"b","e","s","t">>, <<"w","o","r","s","e">>,
   <<"w","o","r","s","t">>, <<"s","a","m","e">>, <<"d","i","f","f","e","r","e","n","t">>,
   <<"s","i","m","i","l","a","r">>, <<"e","x","a","c","t">>, <<"d","a","y">>, <<"d","a","y","s">>,
   <<"d","a","i","l","y">>, <<"t","o","d","a","y">>, <<"y","e","s","t","e","r","d","a","y">>,
   <<"t","o","m","o","r","r","o","w">>, <<"w","e","e","k">>, <<"w","e","e","k","s">>,
   <<"w","e","e","k","l","y">>, <<"m","o","n","t","h">>, <<"m","o","n","t","h","s">>,
   <<"m","o","n","t","h","l","y">>, <<"y","e","a","r">>, <<"y","e","a","r","s">>,
   <<"y","e","a","r","l","y">>, <<"a","n","n","u","a","l">>, <<"a","n","n","u","a","l","l","y">>}

CONTEXT_DEPENDENT_WORDS ==
  {<<"a","u","r","o","r","a">>, <<"v","i","c","t","o","r","i","a">>,
   <<"a","n","g","e","l","e","s">>, <<"c","a","r","m","e","n">>,
   <<"e","s","p","e","r","a","n","z","a">>, <<"f","l","o","r","i","d","a">>,
   <<"j","o","r","d","a","n">>, <<"l","e","o","n">>, <<"m","e","r","c","e","d","e","s">>,
   <<"s","a","l","v","a","d","o","r">>, <<"s","a","n","t","i","a","g","o">>,
   <<"t","r","i","n","i","d","a","d">>, <<"v","a","l","e","n","c","i","a">>}

TAGALOG_VERB_PATTERNS ==
  << <<BeginAnchor>> \o <<Alt(<<LitI(<<"n","a","g">>), LitI(<<"m","a","g">>), LitI(<<"u","m">>), LitI(<<"i","n">>), LitI(<<"n","a">>), LitI(<<"m","a">>), LitI(<<"i">>), LitI(<<"i","p","a">>), LitI(<<"p","a","g">>), LitI(<<"p","a","n","g">>), LitI(<<"k","a">>)>>)>>,
     <<BeginAnchor>> \o <<Alt(<<LitI(<<"n","a","g">>), LitI(<<"m","a","g">>)>>)>> \o <<Alt(<<LitI(<<"k","a">>), LitI(<<"p","a">>), LitI(<<"s","i">>)>>)>>,
     <<Alt(<<LitI(<<"i","n">>), LitI(<<"a","n">>), LitI(<<"h","a","n">>)>>)>> \o <<EndAnchor>>,
     <<Alt(<<LitI(<<"u","m">>), LitI(<<"i","n">>)>>)>> \o <<StarLazy(<<Set(AnyChar)>>)>> \o <<Alt(<<LitI(<<"i","n">>), LitI(<<"a","n">>)>>)>> \o <<EndAnchor>> >>

NON_LOCATION_PATTERNS ==
  << <<WordB>> \o <<Alt(<<LitI(<<"n","a","g">>), LitI(<<"m","a","g">>), LitI(<<"u","m">>)>>)>> \o <<Star(<<Set(Space)>>)>> \o Plus(<<Set(WordChar)>>),
     <<WordB>> \o Plus(<<Set(WordChar)>>) \o LitI(<<"i","n","g">>) \o <<WordB>>,
     <<WordB>> \o Plus(<<Set(WordChar)>>) \o LitI(<<"e","d">>) \o <<WordB>>,
     Lit(<<"@">>) \o Plus(<<Set(WordChar)>>),
     Lit(<<"#">>) \o Plus(<<Set(WordChar)>>),
     LitI(<<".">>) \o <<Alt(<<LitI(<<"c","o","m">>), LitI(<<"n","e","t">>), LitI(<<"o","r","g">>), LitI(<<"p","h">>)>>)>>,
     LitI(<<"h","t","t","p">>) \o Opt(LitI(<<"s">>)) \o LitI(<<":","/","/">>),
     <<WordB>> \o <<Set(Digit)>> \o Opt(<<Set(Digit)>>) \o <<Alt(<<LitI(<<"a","m">>), LitI(<<"p","m">>)>>)>> \o <<WordB>>,
     <<WordB>> \o <<Alt(<<LitI(<<"j","a","n">>), LitI(<<"f","e","b">>), LitI(<<"m","a","r">>), LitI(<<"a","p","r">>), LitI(<<"m","a","y">>), LitI(<<"j","u","n">>), LitI(<<"j","u","l">>), LitI(<<"a","u","g">>), LitI(<<"s","e","p">>), LitI(<<"o","c","t">>), LitI(<<"n","o","v">>), LitI(<<"d","e","c">>)>>)>> \o Plus(<<Set(Space)>>) \o Plus(<<Set(Digit)>>),
     <<WordB>> \o LitI(<<"s","e","p","t","e","m","b","e","r">>) \o Plus(<<Set(Space)>>) \o Plus(<<Set(Digit)>>),
     <<WordB>> \o <<Alt(<<LitI(<<"d","o","w","n">>), LitI(<<"o","f","f","l","i","n","e">>), LitI(<<"s","l","o","w">>), LitI(<<"l","a","g">>), LitI(<<"d","e","l","a","y">>), LitI(<<"i","s","s","u","e">>), LitI(<<"p","r","o","b","l","e","m">>), LitI(<<"e","r","r","o","r">>)>>)>>,
     <<WordB>> \o <<Alt(<<LitI(<<"w","a","l","a","n","g">>), LitI(<<"n","o">>), LitI(<<"w","i","t","h","o","u","t">>)>>)>> \o Plus(<<Set(Space)>>) \o <<Alt(<<LitI(<<"i","n","t","e","r","n","e","t">>), LitI(<<"c","o","n","n","e","c","t","i","o","n">>), LitI(<<"s","e","r","v","i","c","e">>), LitI(<<"s","i","g","n","a","l">>)>>)>> >>

LOCATION_CONTEXT_PATTERNS ==
  << <<WordB>> \o <<Alt(<<LitI(<<"t","a","g","a">>), LitI(<<"g","a","l","i","n","g">>), LitI(<<"f","r","o","m">>), LitI(<<"s","a">>), LitI(<<"n","a","s","a">>), LitI(<<"d","i","t","o">>), LitI(<<"r","i","t","o">>), LitI(<<"n","a","n","d","i","t","o">>), LitI(<<"n","a","r","i","t","o">>)>>)>> \o Plus(<<Set(Space)>>),
     <<WordB>> \o <<Alt(<<LitI(<<"h","e","r","e">>) \o Plus(<<Set(Space)>>) \o LitI(<<"i","n">>), LitI(<<"l","o","c","a","t","e","d">>) \o Plus(<<Set(Space)>>) \o LitI(<<"a","t">>), LitI(<<"l","o","c","a","t","e","d">>) \o Plus(<<Set(Space)>>) \o LitI(<<"i","n">>), LitI(<<"b","a","s","e","d">>) \o Plus(<<Set(Space)>>) \o LitI(<<"i","n">>)>>)>> \o Plus(<<Set(Space)>>),
     <<WordB>> \o <<Alt(<<LitI(<<"a","d","d","r","e","s","s">>), LitI(<<"l","o","c","a","t","i","o","n">>), LitI(<<"l","u","g","a","r">>), LitI(<<"a","r","e","a">>), LitI(<<"p","l","a","c","e">>)>>)>> \o <<Star(<<Set(Space)>>)>> \o <<Set({":","="})>> \o <<Star(<<Set(Space)>>)>>,
     <<WordB>> \o Plus(<<Set(Lower \cup Upper)>>) \o Plus(<<Set(Space)>>) \o LitI(<<"a","r","e","a">>) \o <<WordB>>,
     <<WordB>> \o <<Alt(<<LitI(<<"h","e","r","e">>), LitI(<<"d","i","t","o">>), LitI(<<"r","i","t","o">>)>>)>> \o <<WordB>>,
     <<WordB>> \o <<Alt(<<LitI(<<"a","r","o","u","n","d">>), LitI(<<"n","e","a","r">>)>>)>> \o Plus(<<Set(Space)>>) \o <<Set(Lower \cup Upper)>>,
     <<WordB>> \o <<Alt(<<LitI(<<"l","i","v","i","n","g">>), LitI(<<"s","t","a","y","i","n","g">>), LitI(<<"w","o","r","k","i","n","g">>)>>)>> \o Plus(<<Set(Space)>>) \o LitI(<<"i","n">>) \o Plus(<<Set(Space)>>) \o <<Set(Lower \cup Upper)>>,
     <<WordB>> \o <<Alt(<<LitI(<<"c","i","t","y">>), LitI(<<"m","u","n","i","c","i","p","a","l","i","t","y">>), LitI(<<"p","r","o","v","i","n","c","e">>), LitI(<<"r","e","g","i","o","n">>), LitI(<<"b","a","r","a","n","g","a","y">>), LitI(<<"b","r","g","y">>)>>)>> \o Plus(<<Set(Space)>>),
     <<WordB>> \o <<Alt(<<LitI(<<"c","i","t","y">>), LitI(<<"m","u","n","i","c","i","p","a","l","i","t","y">>), LitI(<<"p","r","o","v","i","n","c","e">>), LitI(<<"r","e","g","i","o","n">>), LitI(<<"b","a","r","a","n","g","a","y">>), LitI(<<"b","r","g","y">>)>>)>> \o <<EndAnchor>>,
     LitI(<<",">>) \o <<Star(<<Set(Space)>>)>> \o LitI(<<"p","h","i","l","i","p","p","i","n","e","s">>) \o <<EndAnchor>>,
     <<WordB>> \o <<Alt(<<LitI(<<"n","o","r","t","h">>), LitI(<<"s","o","u","t","h">>), LitI(<<"e","a","s","t">>), LitI(<<"w","e","s","t">>), LitI(<<"n","o","r","t","h","e","r","n">>), LitI(<<"s","o","u","t","h","e","r","n">>), LitI(<<"e","a","s","t","e","r","n">>), LitI(<<"w","e","s","t","e","r","n">>)>>)>> \o Plus(<<Set(Space)>>),
     <<WordB>> \o <<Alt(<<LitI(<<"u","p","p","e","r">>), LitI(<<"l","o","w","e","r">>), LitI(<<"c","e","n","t","r","a","l">>), LitI(<<"d","o","w","n","t","o","w","n">>), LitI(<<"s","u","b","u","r","b","a","n">>)>>)>> \o Plus(<<Set(Space)>>) >>

reFilipinoPlace == <<WordB>> \o <<Alt(<<LitI(<<"t","a","g","a">>), LitI(<<"d","i","t","o">>) \o Plus(<<Set(Space)>>) \o LitI(<<"s","a">>), LitI(<<"n","a","s","a">>)>>)>> \o Plus(<<Set(Space)>>) \o Plus(<<Set(WordChar)>>)
reAreaSuffix == Plus(<<Set(WordChar)>>) \o Plus(<<Set(Space)>>) \o LitI(<<"a","r","e","a">>) \o <<WordB>>
reLocationSign == <<WordB>> \o <<Alt(<<LitI(<<"l","o","c","a","t","i","o","n">>), LitI(<<"a","d","d","r","e","s","s">>)>>)>> \o <<Star(<<Set(Space)>>)>> \o <<Set({":","="})>>

\* a non-location pattern counts against the word when its first match contains the word
InNonLocation(m, fullTextLower, normalized) ==
  m.ok /\ includes(Sub(fullTextLower, m.b, m.e), normalized)

FalsePositiveIn(normalized, fullTextLower) ==
  \/ normalized \in FILIPINO_FUNCTION_WORDS
  \/ normalized \in ENGLISH_FALSE_POSITIVES
  \/ AnyTest(TAGALOG_VERB_PATTERNS, normalized)
  \/ IF normalized \in CONTEXT_DEPENDENT_WORDS
     THEN ~AnyTest(LOCATION_CONTEXT_PATTERNS, fullTextLower)
     ELSE \E i \in 1..Len(NON_LOCATION_PATTERNS) :
            InNonLocation(Exec(NON_LOCATION_PATTERNS[i], fullTextLower, 1),
                          fullTextLower, normalized)

isFalsePositive(word, fullText) ==
  IF word = Empty THEN TRUE
  ELSE FalsePositiveIn(trim(toLowerCase(word)), toLowerCase(fullText))

HasContext(textLower) ==
  \/ Test(reFilipinoPlace, textLower)
  \/ Test(reAreaSuffix, textLower)
  \/ Test(reLocationSign, textLower)
  \/ AnyTest(LOCATION_CONTEXT_PATTERNS, textLower)

hasLocationContext(text) == HasContext(toLowerCase(text))

\* new RegExp(`\\b${word}\\b`, 'i'): the word is pasted into the pattern as it is,
\* so a "." in it stands for any character; words are taken over letters, digits,
\* spaces, commas and dots, the other characters that mean something in a pattern
\* being left out
WordNode(c) == IF c = "." THEN Set(AnyChar) ELSE Set({ToLowerChar(c), ToUpperChar(c)})
wordRegex(word) == <<WordB>> \o [i \in 1..Len(word) |-> WordNode(word[i])] \o <<WordB>>

\* [\s,.\-!?;:]
BoundaryChars == Space \cup {",", ".", "-", "!", "?", ";", ":"}

\* the characters next to a match, a space standing for either end of the text
Before(text, m) == IF m.b > 1 THEN text[m.b - 1] ELSE " "
After(text, m) == IF m.e <= Len(text) THEN text[m.e] ELSE " "

BoundedMatch(text, m) ==
  IF m.ok /\ Before(text, m) \in BoundaryChars /\ After(text, m) \in BoundaryChars
  THEN [kind |-> "string", value |-> Sub(text, m.b, m.e)]
  ELSE Null

extractWordWithBoundaries(text, word) == BoundedMatch(text, Exec(wordRegex(word), text, 1))

Invalid(reason) ==
  [kind |-> "validation", isValid |-> FALSE, reason |-> reason, candidate |-> Empty]

Validated(extracted) ==
  IF IsNull(extracted) THEN Invalid("Not a complete word")
  ELSE [kind |-> "validation", isValid |-> TRUE, reason |-> "", candidate |-> extracted.value]

validateLocationCandidate(candidate, fullText) ==
  IF candidate = Empty \/ Len(candidate) < 3 THEN Invalid("Too short")
  ELSE IF isFalsePositive(candidate, fullText) THEN Invalid("Common word false positive")
  ELSE IF ~hasLocationContext(fullText) THEN Invalid("No location context")
  ELSE Validated(extractWordWithBoundaries(fullText, candidate))


(* ---------- the input alphabet of the calls ---------- *)
BarangayNames == {<<"P","o","b","l","a","c","i","o","n">>, <<"B","r","g","y","."," ","P","o","b","l","a","c","i","o","n">>, <<"A","p","a","s">>, <<"T","a","n","z","a">>}

CityNames ==
  {<<"P","i","l","a","r">>, <<"Q","u","e","z","o","n">>, <<"Q","C">>, <<"Q","u","e","z","o","n"," ","C","i","t","y">>, <<"C","e","b","u"," ","C","i","t","y">>, <<"N","a","g","a">>, <<"M","o","n","t","a","l","b","a","n">>, <<"M","a","k","a","t","i">>}

ProvinceNames == {<<"C","e","b","u">>, <<"B","o","h","o","l">>, <<"T","a","n","z","a">>}

CityContexts == {Empty, <<"T","a","n","z","a">>, <<"P","i","l","a","r">>, <<"s","a">>, <<"?","?">>}

ProvinceContexts == {Empty, <<"C","e","b","u">>, <<"B","o","h","o","l">>, <<"L","a","g","u","n","a">>}

HierarchyBarangays == {Empty, <<"P","o","b","l","a","c","i","o","n">>}

HierarchyCities == {Empty, <<"T","a","n","z","a">>, <<"P","i","l","a","r">>}

HierarchyProvinces == {Empty, <<"C","a","v","i","t","e">>}

Texts ==
  <<<<"P","i","l","a","r",","," ","C","e","b","u">>, <<"P","i","l","a","r",","," ","B","o","h","o","l">>, <<"P","o","b","l","a","c","i","o","n",","," ","T","a","n","z","a">>, <<"B","r","g","y"," ","P","o","b","l","a","c","i","o","n",","," ","T","a","n","z","a">>,
    <<"B","r","g","y"," ","P","o","b","l","a","c","i","o","n"," ","s","a">>, <<"B","r","g","y"," ","P","o","b","l","a","c","i","o","n",","," ","?","?">>, <<"D","i","t","o"," ","s","a"," ","C","e","b","u"," ","C","i","t","y">>, <<"s","a"," ","B","o","h","o","l">>,
    <<"A","p","a","s",","," ","C","e","b","u"," ","C","i","t","y">>, <<"R","o","s","a","r","i","o",","," ","C","a","v","i","t","e">>, <<"S","a","h","u","d"," ","U","l","a","n",","," ","T","a","n","z","a">>, <<"L","u","z",","," ","P","i","l","a","r">>,
    <<"N","a","g","a",","," ","C","e","b","u">>, <<"S","a","m","e"," ","h","e","r","e">>, <<"T","a","n","z","a"," ","a","r","e","a">>, <<"r","o","s","a","r","i","o"," ","m","o","n","t","a","l","b","a","n"," ","r","i","z","a","l">>,
    <<"L","o","c","a","t","i","o","n",":"," ","T","a","n","z","a">>, <<"Q","C">>, <<"T","a","g","a"," ","Q","C"," ","a","k","o">>, <<"M","o","n","t","a","l","b","a","n"," ","R","i","z","a","l">>, <<"s","a","r","a","d","o"," ","A","F"," ","m","a","l","o","l","o","s">>,
    <<"P","o","b","l","a","c","i","o","n"," ","a","r","e","a">>, <<"B","r","g","y"," ","P","o","b","l","a","c","i","o","n">>, <<"L","o","c","a","t","i","o","n",":"," ","P","o","b","l","a","c","i","o","n">>, <<"B","r","g","y","."," ","A","p","a","s",","," ","C","e","b","u"," ","l","o","l">>,
    <<"P","o","b","l","a","c","i","o","n",","," ","C","a","v","i","t","e">>, Empty,
    <<"N","a","g","a",","," ","C","e","b","u"," ","l","o","l">>, <<"S","a","m","e",","," ","C","e","b","u">>, <<"s","a"," ","c","o","n","s","t","r","u","c","t","o","r">>>>

\* the province hints given to findBarangay
BarangayProvinceContexts == {Empty, <<"B","o","h","o","l">>, <<"L","a","g","u","n","a">>}

\* the strings given to normalizeKey
KeyInputs ==
  {<<"Q","u","e","z","o","n"," ","C","i","t","y">>,
   <<"a"," ","c","i","t","y",".">>,
   <<"B","a","r","a","n","g","a","y"," ","B","r","g","y"," ","A","p","a","s">>,
   <<" ","B","r","g","y"," ","A","p","a","s">>,
   <<"R","O","D","R","I","G","U","E","Z"," ","(","M","O","N","T","A","L","B","A","N",")">>,
   <<"B","r","g","y","."," ","P","o","b","l","a","c","i","o","n">>,
   <<"C","i","t","y"," ","C","i","t","y">>,
   <<"S","t","o","."," ","N","i","n","o">>,
   <<"b","r","g","y">>,
   <<"T","a","n","z","a">>}

\* the full texts a context-dependent word is looked up in
ContextTexts(word) ==
  {<<"t","a","g","a"," ">> \o word, word \o <<" ","p","o">>, word \o <<" ","a","r","e","a">>, <<"A","d","d","r","e","s","s",":"," ">> \o word, word}

\* the words and texts given to isFalsePositive
FalsePositiveInputs ==
  UNION {{<<word, text>> : text \in ContextTexts(word)} : word \in CONTEXT_DEPENDENT_WORDS}

\* the candidates and full texts given to validateLocationCandidate
ValidationInputs ==
  {<<<<"T","a","n","z","a">>, <<"t","a","g","a"," ","T","a","n","z","a">>>>,
   <<<<"T","a","n","z","a">>, <<"t","a","g","a"," ","T","a","n","z","a","n","i","a">>>>,
   <<<<"S","t","a","."," ","A","n","a">>, <<"t","a","g","a"," ","S","t","a",","," ","A","n","a">>>>,
   <<<<"S","t","a","."," ","A","n","a">>, <<"t","a","g","a"," ","S","t","a","."," ","A","n","a">>>>,
   <<<<"Q","C">>, <<"s","a"," ","Q","C">>>>,
   <<<<"T","a","n","z","a">>, <<"T","a","n","z","a">>>>,
   <<<<"T","a","n","z","a">>, <<"s","a"," ","(","T","a","n","z","a",")">>>>,
   <<<<"t","a","n","z","a">>, <<"S","a"," ","T","A","N","Z","A","!">>>>,
   <<<<"C","e","b","u">>, <<"n","a","s","a"," ","C","e","b","u","-","C","i","t","y">>>>,
   <<<<"l","e","o","n">>, <<"s","a"," ","L","e","o","n">>>>,
   <<<<"j","o","r","d","a","n">>, <<"s","a"," ","J","o","r","d","a","n">>>>,
   <<<<"A","p","a","s">>, <<"s","a"," ","x","A","p","a","s">>>>}

\* what a caller may hand to parseLocation: a string, or a value of another type
Inputs ==
  {[typeof |-> "string", text |-> Texts[i]] : i \in 1..Len(Texts)}
    \cup {[typeof |-> "number", text |-> Empty], [typeof |-> "undefined", text |-> Empty]}

\* the states of the gazetteer file the process may find on disk
Datasets == {"valid", "missing", "malformed"}

ParseCandidates(ix, candidates, confidence) ==
  IF Len(candidates) = 0 THEN Null ELSE findBestMatch(ix, candidates, confidence)

\* parseLocation on a string
parseLocation(ix, text) ==
  IF text = Empty THEN Null
  ELSE ParseCandidates(ix, extractCandidates(text), calculateConfidence(text))

\* parseLocation on any value: `!text || typeof text !== 'string'` returns null
ParseInput(ix, input) ==
  IF input.typeof # "string" THEN Null ELSE parseLocation(ix, input.text)

\* the index new PhilippineLocationIndex() builds from a readable, well-formed file
LocationIndex == buildIndexes(Gazetteer)

(* ---------- the state machine ---------- *)
\* data: the gazetteer file; instance: the module's singleton, "null" until a
\* constructor call has returned; the five index fields are those of the singleton
VARIABLES data, instance, barangayIndex, cityIndex, provinceIndex, ambiguousBarangays,
          ambiguousCities, call, result,
          \* CacheManager: the Map, the LRU order and Date.now()
          cache, accessOrder, now,
          \* processBatch: its arguments, its locals and where it stands
          texts, batchSize, onProgress, abortSignal, loopIndex, batch, inFlight,
          batchResults, processedCount, progress, results, outcomes, pc,
          \* server-v5.js: the extractor, the calls awaiting it and the SSE streams
          enabled, llmCache, pending, progressStreams, connections, delivered

indexVars == <<barangayIndex, cityIndex, provinceIndex, ambiguousBarangays, ambiguousCities>>

cacheVars == <<cache, accessOrder, now>>

batchVars == <<texts, batchSize, onProgress, abortSignal, loopIndex, batch, inFlight,
               batchResults, processedCount, progress, results, outcomes, pc>>

llmVars == <<enabled, llmCache, pending>>

streamVars == <<progressStreams, connections, delivered>>

serviceVars == <<cacheVars, batchVars, llmVars, streamVars>>

vars == <<data, instance, barangayIndex, cityIndex, provinceIndex, ambiguousBarangays,
          ambiguousCities, call, result, cacheVars, batchVars, llmVars, streamVars>>

\* no index: the parser modules are loaded and getLocationIndex() was never called
NoIndex ==
  /\ instance = "null"
  /\ barangayIndex = <<>>
  /\ cityIndex = <<>>
  /\ provinceIndex = <<>>
  /\ ambiguousBarangays = {}
  /\ ambiguousCities = {}

\* new CacheManager(options): an empty Map and an empty access order
NewCache ==
  /\ cache = <<>>
  /\ accessOrder = <<>>
  /\ now = 0

\* processBatch has not been called
NoBatch ==
  /\ texts = <<>>
  /\ batchSize = 0
  /\ onProgress = "null"
  /\ abortSignal = "null"
  /\ loopIndex = 0
  /\ batch = <<>>
  /\ inFlight = {}
  /\ batchResults = <<>>
  /\ processedCount = 0
  /\ progress = <<>>
  /\ results = <<>>
  /\ outcomes = <<>>
  /\ pc = "idle"

\* new LLMExtractor(apiKey) with no request made
NoCalls ==
  /\ llmCache = <<>>
  /\ pending = <<>>

\* no client has opened /api/progress-stream
NoStreams ==
  /\ progressStreams = <<>>
  /\ connections = <<>>
  /\ delivered = <<>>

\* the PhilippineLocationIndex object as the lookups see it
index ==
  [barangayIndex |-> barangayIndex, cityIndex |-> cityIndex,
   provinceIndex |-> provinceIndex, ambiguousBarangays |-> ambiguousBarangays,
   ambiguousCities |-> ambiguousCities]

Call(op, a, b, c) == [op |-> op, a |-> a, b |-> b, c |-> c]

\* instance = new PhilippineLocationIndex(), once the constructor has returned
Constructed(ix) ==
  /\ instance' = "built"
  /\ barangayIndex' = ix.barangayIndex
  /\ cityIndex' = ix.cityIndex
  /\ provinceIndex' = ix.provinceIndex
  /\ ambiguousBarangays' = ix.ambiguousBarangays
  /\ ambiguousCities' = ix.ambiguousCities

\* getLocationIndex() returns: the singleton exists, or the constructor can read
\* and index the file. Otherwise readFileSync, JSON.parse or buildIndexes throws
\* and `instance` stays null
Obtainable == instance = "built" \/ data = "valid"

\* the index a later call sees when the province table of the singleton is lost
ObtainedWithoutProvinces ==
  IF instance = "built" THEN [index EXCEPT !.provinceIndex = <<>>] ELSE LocationIndex

\* the index getLocationIndex() returns when it returns
Obtained == IF instance = "built" THEN index ELSE LocationIndex

\* the server has loaded its modules and listens; no index exists yet, whatever
\* the state of the file
Init ==
  /\ data \in Datasets
  /\ instance = "null"
  /\ barangayIndex = <<>>
  /\ cityIndex = <<>>
  /\ provinceIndex = <<>>
  /\ ambiguousBarangays = {}
  /\ ambiguousCities = {}
  /\ call = Call("listen", Empty, Empty, Empty)
  /\ result = Null
  /\ NewCache /\ NoBatch /\ enabled = FALSE /\ NoCalls /\ NoStreams

GetLocationIndex ==
  /\ instance = "null"
  /\ call' = Call("getLocationIndex", Empty, Empty, Empty)
  /\ IF Obtainable
     THEN Constructed(LocationIndex) /\ result' = [kind |-> "index"]
     ELSE result' = Exception /\ UNCHANGED <<instance, indexVars>>
  /\ UNCHANGED <<data, serviceVars>>

FindBarangay(barangayName, cityContext, provinceContext) ==
  /\ instance = "built"
  /\ call' = Call("findBarangay", barangayName, cityContext, provinceContext)
  /\ result' = findBarangay(index, barangayName, cityContext, provinceContext)
  /\ UNCHANGED <<data, instance, indexVars, serviceVars>>

FindCity(cityName, provinceContext) ==
  /\ instance = "built"
  /\ call' = Call("findCity", cityName, provinceContext, Empty)
  /\ result' = findCity(index, cityName, provinceContext)
  /\ UNCHANGED <<data, instance, indexVars, serviceVars>>

FindProvince(provinceName) ==
  /\ instance = "built"
  /\ call' = Call("findProvince", provinceName, Empty, Empty)
  /\ result' = findProvince(index, provinceName)
  /\ UNCHANGED <<data, instance, indexVars, serviceVars>>

IsAmbiguousBarangay(barangayName) ==
  /\ instance = "built"
  /\ call' = Call("isAmbiguousBarangay", barangayName, Empty, Empty)
  /\ result' = [kind |-> "boolean", value |-> isAmbiguousBarangay(index, barangayName)]
  /\ UNCHANGED <<data, instance, indexVars, serviceVars>>

IsAmbiguousCity(cityName) ==
  /\ instance = "built"
  /\ call' = Call("isAmbiguousCity", cityName, Empty, Empty)
  /\ result' = [kind |-> "boolean", value |-> isAmbiguousCity(index, cityName)]
  /\ UNCHANGED <<data, instance, indexVars, serviceVars>>

ValidateHierarchy(barangay, city, province) ==
  /\ instance = "built"
  /\ call' = Call("validateHierarchy", barangay, city, province)
  /\ result' = [kind |-> "boolean", value |-> validateHierarchy(index, barangay, city, province)]
  /\ UNCHANGED <<data, instance, indexVars, serviceVars>>

\* the exported parseLocation: new HierarchicalLocationParserV2(), whose constructor
\* calls getLocationIndex(), then parser.parseLocation(text)
ParseLocation(input) ==
  /\ call' = Call("parseLocation", input.text, <<input.typeof>>, Empty)
  /\ IF Obtainable
     THEN Constructed(Obtained) /\ result' = ParseInput(Obtained, input)
     ELSE result' = Exception /\ UNCHANGED <<instance, indexVars>>
  /\ UNCHANGED <<data, serviceVars>>

Next ==
  \/ GetLocationIndex
  \/ \E n \in BarangayNames, c \in CityContexts, p \in BarangayProvinceContexts :
        FindBarangay(n, c, p)
  \/ \E n \in CityNames, p \in ProvinceContexts : FindCity(n, p)
  \/ \E n \in ProvinceNames : FindProvince(n)
  \/ \E n \in BarangayNames : IsAmbiguousBarangay(n)
  \/ \E n \in CityNames : IsAmbiguousCity(n)
  \/ \E b \in HierarchyBarangays, c \in HierarchyCities, p \in HierarchyProvinces :
        ValidateHierarchy(b, c, p)
  \/ \E input \in Inputs : ParseLocation(input)

Spec == Init /\ [][Next]_vars

(* ---------- the functions that use no index ---------- *)
\* the modules are loaded and no call has been made
PureInit ==
  /\ data = "valid"
  /\ instance = "null"
  /\ barangayIndex = <<>>
  /\ cityIndex = <<>>
  /\ provinceIndex = <<>>
  /\ ambiguousBarangays = {}
  /\ ambiguousCities = {}
  /\ call = Call("require", Empty, Empty, Empty)
  /\ result = Null
  /\ NewCache /\ NoBatch /\ enabled = FALSE /\ NoCalls /\ NoStreams

NormalizeKey(str) ==
  /\ call' = Call("normalizeKey", str, Empty, Empty)
  /\ result' = [kind |-> "string", value |-> normalizeKey(str)]
  /\ UNCHANGED <<data, instance, indexVars, serviceVars>>

ExtractCandidates(text) ==
  /\ call' = Call("extractCandidates", text, Empty, Empty)
  /\ result' = [kind |-> "candidates", value |-> extractCandidates(text)]
  /\ UNCHANGED <<data, instance, indexVars, serviceVars>>

IsFalsePositive(word, fullText) ==
  /\ call' = Call("isFalsePositive", word, fullText, Empty)
  /\ result' = [kind |-> "boolean", value |-> isFalsePositive(word, fullText)]
  /\ UNCHANGED <<data, instance, indexVars, serviceVars>>

ValidateLocationCandidate(candidate, fullText) ==
  /\ call' = Call("validateLocationCandidate", candidate, fullText, Empty)
  /\ result' = validateLocationCandidate(candidate, fullText)
  /\ UNCHANGED <<data, instance, indexVars, serviceVars>>

PureNext ==
  \/ \E str \in KeyInputs : NormalizeKey(str)
  \/ \E i \in 1..Len(Texts) : ExtractCandidates(Texts[i])
  \/ \E input \in FalsePositiveInputs : IsFalsePositive(input[1], input[2])
  \/ \E input \in ValidationInputs : ValidateLocationCandidate(input[1], input[2])

PureSpec == PureInit /\ [][PureNext]_vars

(***************************************************************************)
(* CacheManager (cache-manager.js)                                         *)
(***************************************************************************)
\* the options the cache is constructed with, and the last reading of the clock
maxSize == 2
ttl == 1
MaxTime == 4

MapSet(m, k, v) == [x \in DOMAIN m \cup {k} |-> IF x = k THEN v ELSE m[x]]
MapDelete(m, k) == [x \in DOMAIN m \ {k} |-> m[x]]

\* generateKey(text, { useLLM }): the digest of JSON.stringify({ text, useLLM }),
\* one key for each pair
generateKey(text, useLLM) == <<text, useLLM>>

\* accessOrder.indexOf(key), 1-based, 0 for -1
indexOf(order, key) ==
  IF \E j \in 1..Len(order) : order[j] = key
  THEN Least({j \in 1..Len(order) : order[j] = key})
  ELSE 0

\* accessOrder.splice(index, 1) when the key is found, then accessOrder.push(key)
Touch(order, key) ==
  Append(IF indexOf(order, key) > 0
         THEN SubSeq(order, 1, indexOf(order, key) - 1)
                \o SubSeq(order, indexOf(order, key) + 1, Len(order))
         ELSE order,
         key)

\* accessOrder.splice(index, 1) when the key is found
Untouch(order, key) ==
  IF indexOf(order, key) > 0
  THEN SubSeq(order, 1, indexOf(order, key) - 1)
         \o SubSeq(order, indexOf(order, key) + 1, Len(order))
  ELSE order

CacheState(c, order) == [cache |-> c, accessOrder |-> order]

\* an entry that is returned however old it is
ExpiredNever(item, t) == FALSE

\* Date.now() - item.timestamp > this.ttl
Expired(item, t) == t - item.timestamp > ttl

\* get(key): the value returned and the cache it leaves
get(c, order, key, t) ==
  IF key \notin DOMAIN c
  THEN [cache |-> c, accessOrder |-> order, value |-> Null]
  ELSE IF Expired(c[key], t)
       THEN [cache |-> MapDelete(c, key), accessOrder |-> order, value |-> Null]
       ELSE [cache |-> c, accessOrder |-> Touch(order, key), value |-> c[key].value]

evictLRU(c, order) ==
  IF Len(order) = 0 THEN CacheState(c, order)
  ELSE CacheState(MapDelete(c, Head(order)), Tail(order))

\* the cache after the eviction check of set
Evicted(c, order, key) ==
  IF Cardinality(DOMAIN c) >= maxSize /\ key \notin DOMAIN c
  THEN evictLRU(c, order)
  ELSE CacheState(c, order)

\* the cache that set leaves once the eviction check has left `ev`
Stored(ev, key, value, t) ==
  CacheState(MapSet(ev.cache, key, [value |-> value, timestamp |-> t]),
             Touch(ev.accessOrder, key))

set(c, order, key, value, t) == Stored(Evicted(c, order, key), key, value, t)

RECURSIVE CleanFrom(_, _, _, _)
\* the loop of cleanExpired over the entries `keys`
CleanFrom(keys, c, order, t) ==
  IF keys = {} THEN CacheState(c, order)
  ELSE LET key == CHOOSE k \in keys : TRUE
       IN IF Expired(c[key], t)
          THEN CleanFrom(keys \ {key}, MapDelete(c, key), Untouch(order, key), t)
          ELSE CleanFrom(keys \ {key}, c, order, t)

cleanExpired(c, order, t) == CleanFrom(DOMAIN c, c, order, t)

\* the keys and values of the calls
CacheTexts == {<<"C","e","b","u">>, <<"N","a","g","a">>, <<"A","p","a","s">>}
CacheKeys == {generateKey(t, TRUE) : t \in CacheTexts}
CacheValues == {[kind |-> "value", id |-> 1], [kind |-> "value", id |-> 2]}

Becomes(st) == cache' = st.cache /\ accessOrder' = st.accessOrder

\* everything but the cache and the record of the call
NoOtherService == UNCHANGED <<data, instance, indexVars, batchVars, llmVars, streamVars>>

CacheInit ==
  /\ data = "valid"
  /\ NoIndex
  /\ call = Call("new CacheManager", Empty, Empty, Empty)
  /\ result = Null
  /\ NewCache /\ NoBatch /\ enabled = FALSE /\ NoCalls /\ NoStreams

CacheGet(key) ==
  /\ call' = Call("get", key, Empty, Empty)
  /\ result' = get(cache, accessOrder, key, now).value
  /\ Becomes(get(cache, accessOrder, key, now))
  /\ UNCHANGED now
  /\ NoOtherService

CacheSet(key, value) ==
  /\ call' = Call("set", key, value, Empty)
  /\ result' = Undefined
  /\ Becomes(set(cache, accessOrder, key, value, now))
  /\ UNCHANGED now
  /\ NoOtherService

CacheClear ==
  /\ call' = Call("clear", Empty, Empty, Empty)
  /\ result' = Undefined
  /\ cache' = <<>>
  /\ accessOrder' = <<>>
  /\ UNCHANGED now
  /\ NoOtherService

\* cleanExpired(), called by the interval timer of getCacheInstance or directly
CleanExpired ==
  /\ call' = Call("cleanExpired", Empty, Empty, Empty)
  /\ result' = [kind |-> "number",
                value |-> Cardinality({k \in DOMAIN cache : Expired(cache[k], now)})]
  /\ Becomes(cleanExpired(cache, accessOrder, now))
  /\ UNCHANGED now
  /\ NoOtherService

\* a millisecond passes
Tick ==
  /\ now < MaxTime
  /\ now' = now + 1
  /\ UNCHANGED <<call, result, cache, accessOrder>>
  /\ NoOtherService

CacheNext ==
  \/ \E key \in CacheKeys : CacheGet(key)
  \/ \E key \in CacheKeys, value \in CacheValues : CacheSet(key, value)
  \/ CacheClear
  \/ CleanExpired
  \/ Tick

CacheSpec == CacheInit /\ [][CacheNext]_vars

(***************************************************************************)
(* processBatch (batch-processor.js)                                       *)
(***************************************************************************)
\* the longest texts array, and how far below zero the loop index is told apart
MaxTexts == 3
MaxBelow == 2

BatchTexts == <<<<"C","e","b","u">>, <<"N","a","g","a">>, <<"A","p","a","s">>>>

\* the texts arrays and the batchSize values of the calls
TextArrays ==
  {[k \in 1..n |-> BatchTexts[((k - 1) % Len(BatchTexts)) + 1]] : n \in 0..MaxTexts}
BatchSizes == (0 - 1)..MaxTexts

\* Array.prototype.slice(start, end): a negative bound counts from the end
SliceBound(s, x) == IF x < 0 THEN Max(Len(s) + x, 0) ELSE Min(x, Len(s))
slice(s, start, end) == SubSeq(s, SliceBound(s, start) + 1, SliceBound(s, end))

\* what processFn resolves to for a text
ProcessResult(text) ==
  [text |-> text, location |-> [kind |-> "location"], method |-> "llm_extracted",
   error |-> undefinedField]

ErrorResult(text, error) ==
  [text |-> text, location |-> Null, method |-> "error", error |-> error]

\* Math.round((current / total) * 100)
Percentage(current, total) == (200 * current + total) \div (2 * total)

\* the end of the slice one past the batch
BatchEndBeyond(start, size) == start + size + 1

\* i + batchSize, the end of the slice
BatchEnd(start, size) == start + size

\* the position in the batch, taken for the position in texts
ItemIndexInBatch(start, position) == position

\* itemIndex = i + index, 0-based
ItemIndex(start, position) == start + position

\* the value of a batch promise, as Promise.allSettled reports it
Fulfilled(success, res) == [status |-> "fulfilled", success |-> success, result |-> res]
Rejected(text) == [status |-> "rejected", success |-> FALSE,
                   result |-> ErrorResult(text, <<"T","y","p","e","E","r","r","o","r">>)]

sFailed == <<"f","a","i","l","e","d">>

\* the promise of one item: processFn returns or throws an Error or throws null
\* (then error.message throws in the catch block); onProgress, when called, returns
\* or throws
Promised(text, outcome, callback) ==
  CASE outcome = "throws null" -> Rejected(text)
    [] outcome = "throws" -> Fulfilled(FALSE, ErrorResult(text, sFailed))
    [] outcome = "returns" /\ callback = "throws" ->
         Fulfilled(FALSE, ErrorResult(text, sFailed))
    [] OTHER -> Fulfilled(TRUE, ProcessResult(text))

\* what happened to an item: processFn threw, onProgress threw, or neither
OutcomeOf(outcome, callback) ==
  IF outcome # "returns" THEN "threw"
  ELSE IF callback = "throws" THEN "callback threw" ELSE "returned"

RECURSIVE Placed(_, _, _, _)
\* batchResults.forEach: results[i + index] = the result of promise index
Placed(res, settled, start, positions) ==
  IF positions = {} THEN res
  ELSE LET position == CHOOSE x \in positions : TRUE
       IN Placed(MapSet(res, ItemIndex(start, position), settled[position].result),
                 settled, start, positions \ {position})

NotBatch == UNCHANGED <<data, instance, indexVars, cacheVars, llmVars, streamVars>>

\* processBatch(texts, processFn, { batchSize, onProgress, abortSignal }) has
\* run up to its loop
BatchInit ==
  /\ data = "valid"
  /\ NoIndex
  /\ NewCache /\ enabled = FALSE /\ NoCalls /\ NoStreams
  /\ texts \in TextArrays
  /\ batchSize \in BatchSizes
  /\ onProgress \in {"null", "callback"}
  /\ abortSignal \in {"null", "idle"}
  /\ loopIndex = 0
  /\ batch = <<>>
  /\ inFlight = {}
  /\ batchResults = <<>>
  /\ processedCount = 0
  /\ progress = <<>>
  /\ results = <<>>
  /\ outcomes = <<>>
  /\ pc = "loop"
  /\ call = Call("processBatch", texts, <<batchSize>>, <<onProgress>>)
  /\ result = Null

\* the loop test passes, no abort: the batch is sliced and processFn is called for
\* each of its items
StartBatch ==
  /\ pc = "loop"
  /\ loopIndex < Len(texts)
  /\ abortSignal # "aborted"
  /\ batch' = slice(texts, loopIndex, BatchEnd(loopIndex, batchSize))
  /\ inFlight' = 0..(Len(batch') - 1)
  /\ batchResults' = <<>>
  /\ pc' = "await"
  /\ UNCHANGED <<texts, batchSize, onProgress, abortSignal, loopIndex, processedCount,
                 progress, results, outcomes, call, result>>
  /\ NotBatch

\* the processFn call of one item settles, and the rest of the item's callback runs
Settle(position, outcome, callback) ==
  /\ pc = "await"
  /\ position \in inFlight
  /\ callback = "none" <=> (outcome # "returns" \/ onProgress = "null")
  /\ inFlight' = inFlight \ {position}
  /\ processedCount' = IF outcome = "returns" THEN processedCount + 1 ELSE processedCount
  /\ progress' =
       IF callback = "none" THEN progress
       ELSE Append(progress,
                   [current |-> processedCount', total |-> Len(texts),
                    percentage |-> Percentage(processedCount', Len(texts))])
  /\ batchResults' = MapSet(batchResults, position, Promised(batch[position + 1], outcome, callback))
  /\ outcomes' = MapSet(outcomes, ItemIndex(loopIndex, position), OutcomeOf(outcome, callback))
  /\ UNCHANGED <<texts, batchSize, onProgress, abortSignal, loopIndex, batch, results, pc,
                 call, result>>
  /\ NotBatch

\* i += batchSize. With a negative batchSize the index falls for ever; below zero
\* every later slice is empty, so the indexes under -MaxBelow are kept as -MaxBelow
Advanced(start, size) == Max(start + size, 0 - MaxBelow)

\* Promise.allSettled resolves: the results are placed and the loop index advances
AllSettled ==
  /\ pc = "await"
  /\ inFlight = {}
  /\ results' = Placed(results, batchResults, loopIndex, DOMAIN batchResults)
  /\ loopIndex' = Advanced(loopIndex, batchSize)
  /\ pc' = "loop"
  /\ UNCHANGED <<texts, batchSize, onProgress, abortSignal, batch, inFlight, batchResults,
                 processedCount, progress, outcomes, call, result>>
  /\ NotBatch

\* the loop test fails, or the abort check breaks out of the loop
Return ==
  /\ pc = "loop"
  /\ loopIndex >= Len(texts) \/ abortSignal = "aborted"
  /\ pc' = "returned"
  /\ result' = [kind |-> "array", value |-> results]
  /\ UNCHANGED <<texts, batchSize, onProgress, abortSignal, loopIndex, batch, inFlight,
                 batchResults, processedCount, progress, results, outcomes, call>>
  /\ NotBatch

\* the caller aborts its AbortController
Abort ==
  /\ abortSignal = "idle"
  /\ pc \in {"loop", "await"}
  /\ abortSignal' = "aborted"
  /\ UNCHANGED <<texts, batchSize, onProgress, loopIndex, batch, inFlight, batchResults,
                 processedCount, progress, results, outcomes, pc, call, result>>
  /\ NotBatch

Settles ==
  \E position \in 0..MaxTexts, outcome \in {"returns", "throws", "throws null"},
     callback \in {"none", "returns", "throws"} : Settle(position, outcome, callback)

BatchNext ==
  \/ StartBatch
  \/ Settles
  \/ AllSettled
  \/ Return
  \/ Abort

BatchSpec == BatchInit /\ [][BatchNext]_vars

\* the event loop runs every continuation that is ready, and every processFn call
\* settles
BatchFairSpec ==
  /\ BatchSpec
  /\ WF_vars(StartBatch)
  /\ WF_vars(Settles)
  /\ WF_vars(AllSettled)
  /\ WF_vars(Return)

(***************************************************************************)
(* processLLMFirst (server-v5.js) and LLMExtractor.extractLocation         *)
(* (llm-extractor.js)                                                      *)
(***************************************************************************)
\* the processLLMFirst calls that may await the extractor at the same time
MaxPending == 2

sNone == <<"N","o","n","e">>

createEmptyLocation ==
  [region |-> sNone, province |-> sNone, city |-> sNone, barangay |-> sNone]

\* a location as the model returns it, after the "None" defaults of callGPT4oMini
ExtractedLocation ==
  [region |-> sNone, province |-> <<"C","e","b","u">>,
   city |-> <<"C","e","b","u"," ","C","i","t","y">>, barangay |-> sNone]

\* location.x || 'None' for each field
normalizeLocationFields(location) ==
  IF location = Null THEN createEmptyLocation
  ELSE [f \in DOMAIN location |-> IF location[f] = Empty THEN sNone ELSE location[f]]

\* /^@\w+(\s+@\w+)*$/
reOnlyMentions ==
  <<BeginAnchor>> \o Lit(<<"@">>) \o Plus(<<Set(WordChar)>>)
    \o <<Star(Spaces1 \o Lit(<<"@">>) \o Plus(<<Set(WordChar)>>))>> \o <<EndAnchor>>

\* /^(@\w+\s*)+$/ and /^(#\w+\s*)+$/
reMentionList ==
  <<BeginAnchor>> \o Plus(Lit(<<"@">>) \o Plus(<<Set(WordChar)>>) \o Spaces0) \o <<EndAnchor>>
reHashtagList ==
  <<BeginAnchor>> \o Plus(Lit(<<"#">>) \o Plus(<<Set(WordChar)>>) \o Spaces0) \o <<EndAnchor>>

noLocationPatterns ==
  << <<BeginAnchor,
       Alt(<<LitI(<<"n","o">>), LitI(<<"w","a","l","a","n","g">>), LitI(<<"w","a","l","a">>),
             LitI(<<"n","a","w","a","l","a">>)>>)>>
       \o Spaces1
       \o <<Alt(<<LitI(<<"s","i","g","n","a","l">>), LitI(<<"i","n","t","e","r","n","e","t">>),
                  LitI(<<"c","o","n","n","e","c","t","i","o","n">>), LitI(<<"n","e","t">>)>>),
            EndAnchor>>,
     <<BeginAnchor,
       Alt(<<LitI(<<"d","o","w","n">>), LitI(<<"o","f","f","l","i","n","e">>),
             LitI(<<"d","i","s","c","o","n","n","e","c","t","e","d">>)>>),
       EndAnchor>>,
     <<BeginAnchor,
       Alt(<<LitI(<<"f","i","x">>), LitI(<<"a","y","u","s","i","n">>),
             LitI(<<"p","l","e","a","s","e">>), LitI(<<"p","l","s">>)>>),
       EndAnchor>> >>

shouldSkipLLM(text) ==
  \/ text = Empty
  \/ Len(trim(text)) < 10
  \/ Test(reMentionList, trim(text))
  \/ Test(reHashtagList, trim(text))
  \/ \E k \in 1..Len(noLocationPatterns) : Test(noLocationPatterns[k], trim(text))

\* what extractLocation resolves to
Response(hasLocation, confidence, location, method) ==
  [kind |-> "response", hasLocation |-> hasLocation, confidence |-> confidence,
   location |-> location, method |-> method, cached |-> FALSE]

PreFiltered == Response(FALSE, 100, Null, "pre-filtered")
ExtractionFailed == Response(FALSE, 0, Null, "error")
\* the answers of callGPT4oMini: a location, or none
Answers ==
  {Response(TRUE, 90, ExtractedLocation, "llm_extracted"),
   Response(FALSE, 0, Null, "llm_extracted")}

\* the LLM request of a call that has not been answered
Requested == [kind |-> "request"]

\* what processLLMFirst returns
Result(text, location, confidence, method) ==
  [kind |-> "result", text |-> text, location |-> location, confidence |-> confidence,
   method |-> method, cached |-> FALSE]

EarlyExit(text) == Result(text, createEmptyLocation, 95, "early_exit")
Disabled(text) == Result(text, createEmptyLocation, 0, "llm_disabled")

\* the result built from what extractLocation resolved to
ResultOf(text, llmResult) ==
  IF llmResult.hasLocation /\ llmResult.location # Null
  THEN Result(text, normalizeLocationFields(llmResult.location), llmResult.confidence,
              llmResult.method)
  ELSE Result(text, createEmptyLocation,
              IF llmResult.confidence = 0 THEN 90 ELSE llmResult.confidence,
              llmResult.method)

\* text.toLowerCase().trim(), the key of the extractor's own cache
ExtractorKey(text) == trim(toLowerCase(text))

\* extractLocation up to its request: a cached or pre-filtered answer, or none yet
Extracting(text) ==
  IF ExtractorKey(text) \in DOMAIN llmCache
  THEN [llmCache[ExtractorKey(text)] EXCEPT !.cached = TRUE]
  ELSE IF shouldSkipLLM(text) THEN PreFiltered ELSE Requested

\* the extractor's cache after extractLocation has run up to its request
ExtractorCache(text) ==
  IF ExtractorKey(text) \notin DOMAIN llmCache /\ shouldSkipLLM(text)
  THEN MapSet(llmCache, ExtractorKey(text), PreFiltered)
  ELSE llmCache

\* processLLMFirst returns without calling the extractor
IsEarlyExit(text) ==
  text = Empty \/ Len(trim(text)) < 5 \/ Test(reOnlyMentions, trim(text))

FreeCall == Least({id \in 1..(MaxPending + 1) : id \notin DOMAIN pending})

NotExtractor == UNCHANGED <<data, instance, indexVars, batchVars, streamVars>>

\* the server has constructed its extractor, with or without an API key, and its
\* result cache
ExtractInit ==
  /\ data = "valid"
  /\ NoIndex
  /\ NewCache /\ NoBatch /\ NoCalls /\ NoStreams
  /\ enabled \in BOOLEAN
  /\ call = Call("new LLMExtractor", <<enabled>>, Empty, Empty)
  /\ result = Null

\* processLLMFirst(text, useLLM), up to its return or to the await of extractLocation
ProcessLLMFirst(text, useLLM) ==
  LET key == generateKey(text, useLLM)
      hit == get(cache, accessOrder, key, now)
  IN /\ call' = Call("processLLMFirst", text, <<useLLM>>, Empty)
     /\ IF hit.value # Null
        THEN /\ result' = [hit.value EXCEPT !.cached = TRUE]
             /\ Becomes(hit)
             /\ UNCHANGED <<llmCache, pending>>
        ELSE IF IsEarlyExit(text)
        THEN /\ result' = EarlyExit(text)
             /\ Becomes(set(hit.cache, hit.accessOrder, key, EarlyExit(text), now))
             /\ UNCHANGED <<llmCache, pending>>
        ELSE IF ~useLLM \/ ~enabled
        THEN /\ result' = Disabled(text)
             /\ Becomes(hit)
             /\ UNCHANGED <<llmCache, pending>>
        ELSE /\ Cardinality(DOMAIN pending) < MaxPending
             /\ pending' = MapSet(pending, FreeCall,
                                  [text |-> text, useLLM |-> useLLM,
                                   llmResult |-> Extracting(text)])
             /\ llmCache' = ExtractorCache(text)
             /\ Becomes(hit)
             /\ UNCHANGED result
     /\ UNCHANGED <<now, enabled>>
     /\ NotExtractor

\* the rest of processLLMFirst once extractLocation has resolved to llmResult
Finish(id, llmResult) ==
  /\ call' = Call("processLLMFirst", pending[id].text, <<pending[id].useLLM>>, Empty)
  /\ result' = ResultOf(pending[id].text, llmResult)
  /\ Becomes(set(cache, accessOrder, generateKey(pending[id].text, pending[id].useLLM),
                 ResultOf(pending[id].text, llmResult), now))
  /\ pending' = MapDelete(pending, id)
  /\ UNCHANGED <<now, enabled>>
  /\ NotExtractor

\* callGPT4oMini resolves: the answer is cached by the extractor and returned
Answer(id, response) ==
  /\ id \in DOMAIN pending
  /\ pending[id].llmResult = Requested
  /\ llmCache' = MapSet(llmCache, ExtractorKey(pending[id].text), response)
  /\ Finish(id, response)

\* callGPT4oMini rejects, or its answer is no JSON: extractLocation catches the
\* error and resolves to its error answer
Fail(id) ==
  /\ id \in DOMAIN pending
  /\ pending[id].llmResult = Requested
  /\ UNCHANGED llmCache
  /\ Finish(id, ExtractionFailed)

\* extractLocation resolved without a request: processLLMFirst resumes
Resume(id) ==
  /\ id \in DOMAIN pending
  /\ pending[id].llmResult # Requested
  /\ UNCHANGED llmCache
  /\ Finish(id, pending[id].llmResult)

\* a millisecond passes on the server
ServerTick ==
  /\ now < ttl + 1
  /\ now' = now + 1
  /\ UNCHANGED <<call, result, cache, accessOrder, enabled, llmCache, pending>>
  /\ NotExtractor

\* the requests: a text that exits early, one the extractor filters out, and one
\* for the LLM, with and without useLLM
ExtractInputs ==
  {<<<<"@","a"," ","@","b">>, TRUE>>,
   <<<<"w","a","l","a","n","g"," ","n","e","t">>, TRUE>>,
   <<<<"t","a","g","a"," ","C","e","b","u"," ","a","k","o">>, TRUE>>,
   <<<<"t","a","g","a"," ","C","e","b","u"," ","a","k","o">>, FALSE>>}

ExtractNext ==
  \/ \E input \in ExtractInputs : ProcessLLMFirst(input[1], input[2])
  \/ \E id \in 1..MaxPending, response \in Answers : Answer(id, response)
  \/ \E id \in 1..MaxPending : Fail(id)
  \/ \E id \in 1..MaxPending : Resume(id)
  \/ ServerTick

ExtractSpec == ExtractInit /\ [][ExtractNext]_vars

(***************************************************************************)
(* The progress streams of server-v5.js (server-sent events)               *)
(***************************************************************************)
\* the connections opened, and the updates written to one connection
MaxConnections == 3
MaxUpdates == 1

SessionIds == {<<"s","1">>, <<"s","2">>}
UpdateTypes == {"started", "progress", "completed"}

NotStreams == UNCHANGED <<data, instance, indexVars, cacheVars, batchVars, llmVars>>

\* the server listens and global.progressStreams is not yet set
StreamInit ==
  /\ data = "valid"
  /\ NoIndex
  /\ NewCache /\ NoBatch /\ enabled = FALSE /\ NoCalls /\ NoStreams
  /\ call = Call("listen", Empty, Empty, Empty)
  /\ result = Null

\* GET /api/progress-stream/:sessionId: the response is stored under the session
\* id and the 'connected' message is written to it
Connect(sessionId) ==
  LET id == Cardinality(DOMAIN connections) + 1
  IN /\ id <= MaxConnections
     /\ call' = Call("GET /api/progress-stream", sessionId, Empty, Empty)
     /\ result' = Undefined
     /\ connections' = MapSet(connections, id, [sessionId |-> sessionId, open |-> TRUE])
     /\ progressStreams' = MapSet(progressStreams, sessionId, id)
     /\ delivered' = MapSet(delivered, id, <<"connected">>)
     /\ NotStreams

\* req.on('close'): the client of connection id has disconnected
Disconnect(id) ==
  /\ id \in DOMAIN connections
  /\ connections[id].open
  /\ call' = Call("close", connections[id].sessionId, <<id>>, Empty)
  /\ result' = Undefined
  /\ connections' = [connections EXCEPT ![id].open = FALSE]
  /\ progressStreams' = MapDelete(progressStreams, connections[id].sessionId)
  /\ UNCHANGED delivered
  /\ NotStreams

\* sendProgressUpdate(sessionId, data): written to the stream stored under the
\* session id; a write to a stream that is closed throws and removes the entry
SendProgressUpdate(sessionId, type) ==
  /\ call' = Call("sendProgressUpdate", sessionId, <<type>>, Empty)
  /\ result' = Undefined
  /\ IF sessionId \notin DOMAIN progressStreams
     THEN UNCHANGED <<progressStreams, delivered>>
     ELSE IF connections[progressStreams[sessionId]].open
          THEN /\ Len(delivered[progressStreams[sessionId]]) <= MaxUpdates
               /\ delivered' = [delivered EXCEPT ![progressStreams[sessionId]] =
                                  Append(@, type)]
               /\ UNCHANGED progressStreams
          ELSE /\ progressStreams' = MapDelete(progressStreams, sessionId)
               /\ UNCHANGED delivered
  /\ UNCHANGED connections
  /\ NotStreams

StreamNext ==
  \/ \E sessionId \in SessionIds : Connect(sessionId)
  \/ \E id \in 1..MaxConnections : Disconnect(id)
  \/ \E sessionId \in SessionIds, type \in UpdateTypes : SendProgressUpdate(sessionId, type)

StreamSpec == StreamInit /\ [][StreamNext]_vars

(***************************************************************************)
(* Properties                                                              *)
(***************************************************************************)
\* the gazetteer's city/province pairs, read from the dataset itself
GazetteerPairs ==
  UNION {UNION {{<<Gazetteer[r].province_list[p].municipality_list[m].name,
                   Gazetteer[r].province_list[p].name>> :
                  m \in 1..Len(Gazetteer[r].province_list[p].municipality_list)} :
                p \in 1..Len(Gazetteer[r].province_list)} :
         r \in 1..Len(Gazetteer)}

\* a parseLocation call on a string has returned from a built index
Parsed == call.op = "parseLocation" /\ call.b = <<"string">> /\ instance = "built"

\* a result that is a location, at whatever level
IsMatch(r) == r.kind \in {"location", "barangay"}

\* a result with no city and no barangay
ProvinceOnly(r) == r.kind = "location" /\ r.city = Empty /\ r.barangay = Empty

\* the strings a candidate carries
Mentions(c) == IF c.type = "sequence" THEN c.parts ELSE <<c.name, c.context>>

AllMentions(candidates) ==
  UNION {{Mentions(candidates[i])[j] : j \in 1..Len(Mentions(candidates[i]))} :
         i \in 1..Len(candidates)} \ {Empty}

\* the string names a city or a province of the index
NamesPlace(ix, s) == ~IsNull(findCity(ix, s, Empty)) \/ ~IsNull(findProvince(ix, s))

\* the unit's city is the city hint, or its province is the province hint
HintNames(unit, cityContext, provinceContext) ==
  \/ cityContext # Empty /\ normalizeKey(unit.city) = normalizeKey(cityContext)
  \/ provinceContext # Empty /\ normalizeKey(unit.province) = normalizeKey(provinceContext)

\* the candidates of a call with a match, as positions
Matching(ix, candidates) ==
  {i \in 1..Len(candidates) : ~IsNull(CandidateOutcome(ix, candidates[i]).locationMatch)}

\* C1: findBarangay on a name with two or more units returns null when no hint
\* is given or no unit has the hinted city or province
C1_NullWithoutMatchingHint ==
  LET matches == Lookup(barangayIndex, normalizeKey(call.a))
  IN (/\ call.op = "findBarangay"
      /\ Len(matches) >= 2
      /\ \A i \in 1..Len(matches) : ~HintNames(matches[i], call.b, call.c))
     => result = Null

\* C2: findCity returns null when the name has two or more units, no province
\* hint selects one and the priority table selects none
C2_NullWhenUnresolved ==
  LET matches == CityMatches(index, call.a)
  IN (/\ call.op = "findCity"
      /\ Len(matches) >= 2
      /\ (call.b = Empty \/ ProvinceContextHits(matches, normalizeKey(call.b)) = {})
      /\ PriorityHits(matches, PriorityOf(normalizeKey(call.a))) = {})
     => result = Null

\* C3: a result of parseLocation with a city names a city/province pair of the gazetteer
C3_CityInGazetteer ==
  (Parsed /\ IsMatch(result) /\ result.city # Empty)
    => <<result.city, result.province>> \in GazetteerPairs

\* C3: a call has returned a city-level result, and another a barangay-level one
C3_CityResult == Parsed /\ result.kind = "location" /\ result.city # Empty

\* C4: a text that mentions an ambiguous barangay name and no city or province
\* resolves to null or to a province alone
C4_AmbiguousStaysUnresolved ==
  LET mentions == AllMentions(extractCandidates(call.a))
  IN (/\ Parsed
      /\ \E s \in mentions : isAmbiguousBarangay(index, s)
      /\ \A s \in mentions : ~NamesPlace(index, s))
     => (result = Null \/ ProvinceOnly(result))

\* C5: an ambiguous barangay name next to a candidate naming one of its cities
\* resolves to the barangay in that city
C5_SiblingCitySelects ==
  LET candidates == extractCandidates(call.a)
      named == {i \in 1..Len(candidates) : candidates[i].type # "sequence"}
  IN Parsed =>
       \A i \in named, j \in named :
         LET units == Lookup(barangayIndex, normalizeKey(candidates[i].name))
         IN (i # j /\ Len(units) >= 2) =>
              \A u \in 1..Len(units) :
                normalizeKey(units[u].city) = normalizeKey(candidates[j].name)
                  => (/\ result.kind = "barangay"
                      /\ result.barangay = units[u].barangay
                      /\ result.city = units[u].city
                      /\ result.province = units[u].province)

\* C6: once the index is built, a key of the city table or of the barangay table
\* is in its ambiguous set exactly when its entry holds more than one unit
C6_AmbiguousIffSeveral ==
  instance = "built" =>
    /\ \A k \in DOMAIN cityIndex : (k \in ambiguousCities) <=> (Len(cityIndex[k]) > 1)
    /\ \A k \in DOMAIN barangayIndex :
         (k \in ambiguousBarangays) <=> (Len(barangayIndex[k]) > 1)

\* C7: when one candidate of a text matches at barangay level and another at
\* city level, the result is the barangay-level match
C7_BarangayPreferred ==
  LET candidates == extractCandidates(call.a)
      matches == {CandidateOutcome(index, candidates[i]).locationMatch :
                    i \in Matching(index, candidates)}
  IN (/\ Parsed
      /\ \E m \in matches : m.kind = "barangay"
      /\ \E m \in matches : m.kind = "location" /\ m.city # Empty)
     => result.kind = "barangay"

\* C8: parseLocation returns a candidate match of maximal score when that score
\* reaches minConfidence, and null otherwise
C8_MaximalOrNull ==
  LET candidates == extractCandidates(call.a)
      confidence == calculateConfidence(call.a)
      matching == Matching(index, candidates)
      Score(i) == BoostedScore(CandidateOutcome(index, candidates[i]), confidence)
      best == Greatest({Score(i) : i \in matching} \cup {0})
  IN Parsed =>
       IF matching = {} \/ best < minConfidence THEN result = Null
       ELSE \E i \in matching :
              /\ Score(i) = best
              /\ result = CandidateOutcome(index, candidates[i]).locationMatch

\* C8: a call whose candidates matched with different scores has returned a match
C8_ScoresDiffer ==
  LET candidates == extractCandidates(call.a)
      matching == Matching(index, candidates)
  IN /\ Parsed
     /\ result # Null
     /\ \E i \in matching, j \in matching :
          CandidateOutcome(index, candidates[i]).score
            < CandidateOutcome(index, candidates[j]).score

\* a text whose mentions name a province and neither a city nor a barangay
OnlyProvince(ix, mentions) ==
  /\ \E s \in mentions : ~IsNull(findProvince(ix, s))
  /\ \A s \in mentions :
       /\ IsNull(findCity(ix, s, Empty))
       /\ Lookup(ix.barangayIndex, normalizeKey(s)) = <<>>

C10_ProvinceHintUsed ==
  LET candidates == extractCandidates(call.a)
  IN (/\ Parsed
      /\ Len(candidates) = 2
      /\ candidates[1].type = "location" /\ candidates[2].type = "location"
      /\ Len(CityMatches(index, candidates[1].name)) >= 2
      /\ \E u \in 1..Len(CityMatches(index, candidates[1].name)) :
           normalizeKey(CityMatches(index, candidates[1].name)[u].province)
             = normalizeKey(candidates[2].name))
     => /\ IsMatch(result)
        /\ normalizeKey(result.city) = normalizeKey(candidates[1].name)
        /\ normalizeKey(result.province) = normalizeKey(candidates[2].name)

\* C11: findBarangay with a hint on a name of two or more units returns, when it
\* returns a unit, the first unit whose city key equals the city hint's key (or,
\* for a province hint, whose province key equals the province hint's key)
C11_FirstWithEqualKey ==
  LET matches == Lookup(barangayIndex, normalizeKey(call.a))
      cityEqual == {i \in 1..Len(matches) :
                      normalizeKey(matches[i].city) = normalizeKey(call.b)}
      provinceEqual == {i \in 1..Len(matches) :
                          normalizeKey(matches[i].province) = normalizeKey(call.c)}
  IN (/\ call.op = "findBarangay"
      /\ Len(matches) >= 2
      /\ (call.b # Empty \/ call.c # Empty)
      /\ ~IsNull(result))
     => \/ call.b # Empty /\ cityEqual # {} /\ result = matches[First(cityEqual)]
        \/ call.c # Empty /\ provinceEqual # {} /\ result = matches[First(provinceEqual)]

\* the canonical names of the alias table that findCity resolves, for an alias key
CanonicalsOf(ix, aliasKey) ==
  {commonAliases[i][2] : i \in {j \in 1..Len(commonAliases) :
      commonAliases[j][1] = aliasKey /\ ~IsNull(findCity(ix, commonAliases[j][2], Empty))}}

\* C12: findCity of an alias of the fixed table returns the unit findCity returns
\* for the canonical name, when that city is in the dataset; "Montalban" resolves
\* to RODRIGUEZ (MONTALBAN) in RIZAL
C12_AliasAsCanonical ==
  (call.op = "findCity" /\ call.b = Empty)
    => /\ \A canonical \in CanonicalsOf(index, toLowerCase(call.a)) :
            result = findCity(index, canonical, Empty)
       /\ toLowerCase(call.a) = <<"m","o","n","t","a","l","b","a","n">>
            => /\ ~IsNull(result)
               /\ result.city = <<"R","O","D","R","I","G","U","E","Z"," ","(","M","O","N","T","A","L","B","A","N",")">>
               /\ result.province = <<"R","I","Z","A","L">>

\* C13: normalizeKey applied to a key it returned returns that key
C13_Idempotent ==
  call.op = "normalizeKey" => normalizeKey(result.value) = result.value

IsLocationMatch(r) ==
  /\ IsMatch(r)
  /\ \A level \in {r.region, r.province, r.city, r.barangay} : level # undefinedField

\* C15: with the dataset in place, parseLocation returns null or a LocationMatch
\* for every input, and raises nothing
C15_NullOrLocationMatch ==
  (call.op = "parseLocation" /\ data = "valid")
    => (result = Null \/ IsLocationMatch(result))

\* C16: with the dataset missing or malformed the process serves nothing: no
\* parseLocation call is ever taken
C16_NoCallWithoutDataset ==
  data # "valid" => call.op # "parseLocation"

\* the strings a candidate is made of
CandidateTexts(c) == IF c.type = "sequence" THEN c.parts ELSE <<c.name>>

\* C17: every candidate extractCandidates returns is longer than two characters
\* and is neither a stopword nor a service name
C17_CandidatesFiltered ==
  call.op = "extractCandidates"
    => \A i \in 1..Len(result.value) :
         \A j \in 1..Len(CandidateTexts(result.value[i])) :
           LET text == CandidateTexts(result.value[i])[j]
           IN /\ Len(text) > 2
              /\ toLowerCase(text) \notin STOPWORDS \cup SERVICE_NAMES

\* the positions of `text` where `word` stands, letter case aside, between
\* characters that are no letter or digit
TokenPositions(text, word) ==
  {i \in 1..(Len(text) - Len(word) + 1) :
     /\ toLowerCase(SubSeq(text, i, i + Len(word) - 1)) = toLowerCase(word)
     /\ (i = 1 \/ text[i - 1] \notin Letter \cup Digit)
     /\ (i + Len(word) > Len(text) \/ text[i + Len(word)] \notin Letter \cup Digit)}

\* C18: a candidate validateLocationCandidate accepts stands in the full text
\* as a complete token
C18_AcceptedIsToken ==
  (call.op = "validateLocationCandidate" /\ result.isValid)
    => TokenPositions(call.b, call.a) # {}

\* C19: for a context-dependent word, isFalsePositive is true exactly when no
\* location-context pattern matches the full text
C19_ContextDecides ==
  (call.op = "isFalsePositive" /\ toLowerCase(call.a) \in CONTEXT_DEPENDENT_WORDS)
    => (result.value <=> ~AnyTest(LOCATION_CONTEXT_PATTERNS, toLowerCase(call.b)))

\* C20: a text with a slang marker and no location indicator resolves to null
C20_SlangSuppresses ==
  (Parsed /\ AnyTest(SLANG_PATTERNS, call.a) /\ calculateConfidence(call.a) = 0)
    => result = Null

(* ---------- CacheManager ---------- *)
\* the cached keys from the least to the most recently read (get hit) or written
LiveOrder == SelectSeq(accessOrder, LAMBDA k : k \in DOMAIN cache)

\* C21: after any sequence of get, set, cleanExpired and clear, with entries
\* expiring in between, the cache holds at most maxSize entries
C21_AtMostMaxSize == Cardinality(DOMAIN cache) <= maxSize

\* C22: a set of a key that is not cached, on a cache of maxSize entries, removes
\* exactly one entry, the least recently read or written of the cached ones
C22_EvictsLeastRecentlyUsed ==
  [][(/\ call'.op = "set"
      /\ now' = now
      /\ call'.a \notin DOMAIN cache
      /\ Cardinality(DOMAIN cache) = maxSize)
     => DOMAIN cache' = (DOMAIN cache \ {Head(LiveOrder)}) \cup {call'.a}]_vars

\* C23: get returns null for an entry stored more than ttl milliseconds before the
\* call, and any value it returns was stored at most ttl milliseconds before
C23_NoValueOlderThanTtl ==
  [][(call'.op = "get" /\ now' = now)
     => /\ (call'.a \in DOMAIN cache /\ now - cache[call'.a].timestamp > ttl)
             => result' = Null
        /\ result' # Null
             => /\ call'.a \in DOMAIN cache
                /\ now - cache[call'.a].timestamp <= ttl
                /\ result' = cache[call'.a].value]_vars

\* C23 witness: a get has found its entry expired: it returned null and deleted
\* the entry, whose key is still in the access order
C23_ExpiredEntryRead ==
  /\ call.op = "get"
  /\ result = Null
  /\ call.a \notin DOMAIN cache
  /\ indexOf(accessOrder, call.a) > 0

(* ---------- processBatch ---------- *)
\* the run has returned without an abort
Completed == pc = "returned" /\ abortSignal # "aborted"

IsErrorRecord(r) == r.location = Null /\ r.method = "error"

C26_ProgressReachesTotal ==
  (Completed /\ onProgress = "callback") =>
    [k \in 1..Len(progress) |-> progress[k].current] = [k \in 1..Len(texts) |-> k]

\* C27: processBatch eventually returns, for every texts array and batchSize
C27_EventuallyReturns == <>(pc = "returned")

(* ---------- processLLMFirst ---------- *)
\* C28: a result produced because the LLM call failed is never stored in the
\* server's result cache
C28_NoFailureCached ==
  \A key \in DOMAIN cache : cache[key].value.method # "error"

\* C29: for any text, at most one LLM request is in flight at a time, so that
\* concurrent processLLMFirst calls for the same text do not each call the LLM
C29_OneRequestPerText ==
  \A id \in DOMAIN pending, other \in DOMAIN pending :
     (/\ pending[id].llmResult = Requested
      /\ pending[other].llmResult = Requested
      /\ pending[id].text = pending[other].text) => id = other

(* ---------- progress streams ---------- *)
\* the connections opened for a session
ConnectionsOf(sessionId) ==
  {id \in DOMAIN connections : connections[id].sessionId = sessionId}

\* C30: the newest connection of a session, while it is open, is the one
\* registered under the session id, whichever older connections have closed
C30_NewestStaysRegistered ==
  \A sessionId \in SessionIds :
     (/\ ConnectionsOf(sessionId) # {}
      /\ connections[Greatest(ConnectionsOf(sessionId))].open)
     => /\ sessionId \in DOMAIN progressStreams
        /\ progressStreams[sessionId] = Greatest(ConnectionsOf(sessionId))

====
